---- MODULE Spec2Model ----
(***************************************************************************)
(* Verification model of the repo-guard reconcilers (GithubTeam and        *)
(* GithubOrganization).  One reconcile pass is one atomic action: for a    *)
(* single key at most one reconcile runs at a time.  The Store holds the   *)
(* resource (labels, spec, status); the Forge holds teams, team members    *)
(* and organization owners.  Time is a small integer clock; one unit is    *)
(* one hour.                                                               *)
(***************************************************************************)
EXTENDS Integers, Sequences, FiniteSets, TLC

\* ------------------------------------------------------------------ bounds
MaxOps == 3
MaxTime == 3
MaxWindow == 2
MaxFailFrom == 3
MaxRepoOps == 4

\* ------------------------------------------------- program constants
\* time.Hour back-off of a rate-limit phrase without timestamp
OneHour == 1
\* zero value of metav1.Time (TeamStatusTimestamp.IsZero())
ZeroTime == 0

\* ---------------------------------------------------------------- strings
\* strings.ToLower on the identifiers of the model
ToLower(s) == IF s = "Ghost" THEN "ghost" ELSE s

\* strings.EqualFold
EqualFold(a, b) == ToLower(a) = ToLower(b)

\* ------------------------------------------------------------- sequences
Range(s) == {s[i] : i \in 1..Len(s)}

Count(s, x) == Cardinality({i \in 1..Len(s) : s[i] = x})

\* assert.ElementsMatch: equal as multisets
elementsMatch(a, b) ==
    /\ Len(a) = Len(b)
    /\ \A x \in Range(a) \cup Range(b) : Count(a, x) = Count(b, x)

\* the elements of S in the order of the sequence order
InOrder(S, order) == SelectSeq(order, LAMBDA x : x \in S)

\* ------------------------------------------------------------ the Forge
\* logins that exist on the Forge, in the order the Forge lists them
ForgeLogins == <<"u1", "u2", "u3">>

\* numeric user id of a forge login (users/42 -> u1, users/77 -> u2,
\* users/99 -> u3)
UIDOf(login) == IF login = "u1" THEN "42" ELSE IF login = "u3" THEN "99" ELSE "77"

\* identifiers a member source can return: I1 is an internal id with an
\* AccountLink, u2 is a forge login, ghost/Ghost exist nowhere on the
\* Forge, u3 is an internal id with an AccountLink to the forge login of
\* the same name
ProviderIDs == <<"I1", "u2", "ghost", "Ghost", "u3">>

\* GithubAccountLink resources of the forge instance
AccountLinks ==
    {[GreenhouseUserID |-> "I1", GithubUserID |-> "42"],
     [GreenhouseUserID |-> "u3", GithubUserID |-> "99"]}

\* error values: kind plus the reset time of "until <timestamp>"
NoError == [kind |-> "none", until |-> 0]

Err(kind) == [kind |-> kind, until |-> 0]

\* failures the Forge can answer a call with
Faults == {"ratelimit", "invitation", "http500", "network"}

\* --------------------------------------------------- api/v1 GithubTeam
\* GithubUserOperation without its Timestamp, which no code reads
Op(kind, user, state, error) ==
    [Operation |-> kind, User |-> user, State |-> state, Error |-> error]

Member(id, login) == [GreenhouseID |-> id, GithubUsername |-> login]

PendingOperationsFound(ops) == \E i \in 1..Len(ops) : ops[i].State = "pending"

FailedOperationsFound(ops) == \E i \in 1..Len(ops) : ops[i].State = "failed"

\* the top-level status recomputed from the residual queue
RecomputeStatus(ops) ==
    IF PendingOperationsFound(ops) THEN "pending"
    ELSE IF FailedOperationsFound(ops) THEN "failed"
    ELSE "complete"

\* buildUserOperationStateMap[lower]: the state of the last operation of
\* that user, "" (the zero value) when the map has no such key
UserOpState(ops, lower) ==
    LET idx == {i \in 1..Len(ops) : ToLower(ops[i].User) = lower}
    IN IF idx = {} THEN ""
       ELSE ops[CHOOSE i \in idx : \A j \in idx : j <= i].State

\* a calculator that queues a login again although its add ended notfound
AddSuppressingStatesWithoutNotFound == {"pending", "complete", "skipped"}

\* a calculator that forgets the pending adds
AddSuppressingStatesWithoutPending == {"complete", "skipped", "notfound"}

\* states of an earlier add operation that suppress a new add
AddSuppressingStates == {"pending", "complete", "skipped", "notfound"}

\* states of an earlier remove operation that suppress a new remove
RemoveSuppressingStates == {"pending", "complete", "skipped"}

\* "operationExists" of the add loop
AddOperationExists(ops, login) ==
    \E i \in 1..Len(ops) :
        /\ EqualFold(ops[i].User, login)
        /\ ops[i].Operation = "add"
        /\ ops[i].State \in AddSuppressingStates

\* "operationExists" of the remove loop
RemoveOperationExists(ops, login) ==
    \E i \in 1..Len(ops) :
        /\ EqualFold(ops[i].User, login)
        /\ ops[i].Operation = "remove"
        /\ ops[i].State \in RemoveSuppressingStates

\* is the login a key of the map built from the members
InMembersMap(members, login) ==
    \E i \in 1..Len(members) :
        ToLower(members[i].GithubUsername) = ToLower(login)

\* the loop over the desired members; ops0 is the queue before the loop,
\* from which userOpStateMap was built
RECURSIVE AddLoop(_, _, _, _, _)
AddLoop(ops, ops0, current, desired, i) ==
    IF i > Len(desired) THEN ops
    ELSE LET login == desired[i].GithubUsername
         IN IF UserOpState(ops0, ToLower(login)) = "notfound"
            THEN AddLoop(ops, ops0, current, desired, i + 1)
            ELSE IF ~InMembersMap(current, login) /\ ~AddOperationExists(ops, login)
            THEN AddLoop(Append(ops, Op("add", login, "pending", "")),
                         ops0, current, desired, i + 1)
            ELSE AddLoop(ops, ops0, current, desired, i + 1)

\* the loop over the current members
RECURSIVE RemoveLoop(_, _, _, _)
RemoveLoop(ops, current, desired, i) ==
    IF i > Len(current) THEN ops
    ELSE LET login == current[i].GithubUsername
         IN IF ~InMembersMap(desired, login) /\ ~RemoveOperationExists(ops, login)
            THEN RemoveLoop(Append(ops, Op("remove", login, "pending", "")),
                            current, desired, i + 1)
            ELSE RemoveLoop(ops, current, desired, i + 1)

\* a calculator that also reports a change when the stored timestamp is
\* not the current time
ChangeCalculatorRefreshing(status, desired, now) ==
    LET ops1 == AddLoop(status.operations, status.operations, status.members, desired, 1)
        ops2 == RemoveLoop(ops1, status.members, desired, 1)
        changed == Len(ops2) # Len(status.operations) \/ status.timestamp # now
    IN [changed |-> changed,
        status |-> IF changed
                   THEN [status EXCEPT !.operations = ops2,
                                       !.teamStatus = "pending",
                                       !.timestamp = now]
                   ELSE status]

\* GithubTeam.ChangeCalculator: the changed flag and the new status
ChangeCalculator(status, desired, now) ==
    LET ops1 == AddLoop(status.operations, status.operations, status.members, desired, 1)
        ops2 == RemoveLoop(ops1, status.members, desired, 1)
        changed == Len(ops2) # Len(status.operations)
    IN [changed |-> changed,
        status |-> IF changed
                   THEN [status EXCEPT !.operations = ops2,
                                       !.teamStatus = "pending",
                                       !.timestamp = now]
                   ELSE status]

\* ------------------------------------------------ controller helpers
\* parseGitHubRateLimitReset: a phrase without timestamp gives now + 1h
parseGitHubRateLimitReset(err, now) ==
    IF err.kind = "invitation" THEN [ok |-> TRUE, at |-> now + OneHour]
    ELSE IF err.kind = "ratelimit" THEN [ok |-> TRUE, at |-> err.until]
    ELSE [ok |-> FALSE, at |-> ZeroTime]

\* ttlExpired: now.After(since.Add(d)); ttl < 0 stands for no usable label
ttlExpired(ttl, since, now) == ttl >= 0 /\ now > since + ttl

RemoveState(ops, state) == SelectSeq(ops, LAMBDA o : o.State # state)

\* ------------------------------------------ api/v1 GithubOrganization
\* team names on the Forge, in the order the Forge lists them
ForgeTeams == <<"tA", "tB">>

\* GithubTeamOperation and GithubRepoTeamOperation without Timestamp
TeamOp(kind, team, state, error) ==
    [Operation |-> kind, Team |-> team, State |-> state, Error |-> error]

RepoOp(kind, repo, team, permission) ==
    [Operation |-> kind, Repo |-> repo, Team |-> team, Permission |-> permission,
     State |-> "pending", Error |-> ""]

\* GithubOrganizationStatusOperations
NoOperations == [owner |-> <<>>, team |-> <<>>, repo |-> <<>>]

AnyInState(ops, state) ==
    \/ \E i \in 1..Len(ops.owner) : ops.owner[i].State = state
    \/ \E i \in 1..Len(ops.repo) : ops.repo[i].State = state
    \/ \E i \in 1..Len(ops.team) : ops.team[i].State = state

OrgPendingOperationsFound(ops) == AnyInState(ops, "pending")

OrgFailedOperationsFound(ops) == AnyInState(ops, "failed")

OrgRecomputeStatus(ops) ==
    IF OrgPendingOperationsFound(ops) THEN "pending"
    ELSE IF OrgFailedOperationsFound(ops) THEN "failed"
    ELSE "complete"

\* CleanCompletedOperations / CleanFailedOperations: the three queues
\* without the operations in the given state
CleanOperations(ops, state) ==
    [owner |-> RemoveState(ops.owner, state),
     team |-> RemoveState(ops.team, state),
     repo |-> RemoveState(ops.repo, state)]

CleanCompletedOperations(ops) == CleanOperations(ops, "complete")

CleanFailedOperations(ops) == CleanOperations(ops, "failed")

\* "check if there is a waiting task": an operation of that kind for the
\* user that is not complete
OwnerOperationFound(ops, login, kind) ==
    \E i \in 1..Len(ops) :
        /\ EqualFold(ops[i].User, login)
        /\ ops[i].Operation = kind
        /\ ops[i].State # "complete"

\* one loop of OwnerChangeCalculator: an operation of the kind for every
\* member of from that has no counterpart in against
RECURSIVE OwnerLoop(_, _, _, _, _)
OwnerLoop(ops, from, against, kind, i) ==
    IF i > Len(from) THEN ops
    ELSE LET login == from[i].GithubUsername
         IN IF ~InMembersMap(against, login) /\ ~OwnerOperationFound(ops, login, kind)
            THEN OwnerLoop(Append(ops, Op(kind, login, "pending", "")),
                           from, against, kind, i + 1)
            ELSE OwnerLoop(ops, from, against, kind, i + 1)

OwnerChangeCalculator(status, ownersFromKubernetes, now) ==
    LET ops1 == OwnerLoop(status.operations.owner, ownersFromKubernetes,
                          status.owners, "add", 1)
        ops2 == OwnerLoop(ops1, status.owners, ownersFromKubernetes, "remove", 1)
        changed == Len(ops2) # Len(status.operations.owner)
    IN [changed |-> changed,
        status |-> IF changed
                   THEN [status EXCEPT !.operations.owner = ops2,
                                       !.orgStatus = "pending",
                                       !.error = NoError,
                                       !.timestamp = now]
                   ELSE status]

TeamOperationFound(ops, team, kind) ==
    \E i \in 1..Len(ops) :
        /\ EqualFold(ops[i].Team, team)
        /\ ops[i].Operation = kind
        /\ ops[i].State # "complete"

NameIn(names, name) == \E i \in 1..Len(names) : EqualFold(names[i], name)

RECURSIVE TeamLoop(_, _, _, _, _)
TeamLoop(ops, from, against, kind, i) ==
    IF i > Len(from) THEN ops
    ELSE IF ~NameIn(against, from[i]) /\ ~TeamOperationFound(ops, from[i], kind)
    THEN TeamLoop(Append(ops, TeamOp(kind, from[i], "pending", "")),
                  from, against, kind, i + 1)
    ELSE TeamLoop(ops, from, against, kind, i + 1)

TeamChangeCalculator(status, teamsFromKubernetes, now) ==
    LET ops1 == TeamLoop(status.operations.team, teamsFromKubernetes,
                         status.teams, "add", 1)
        ops2 == TeamLoop(ops1, status.teams, teamsFromKubernetes, "remove", 1)
        changed == Len(ops2) # Len(status.operations.team)
    IN [changed |-> changed,
        status |-> IF changed
                   THEN [status EXCEPT !.operations.team = ops2,
                                       !.orgStatus = "pending",
                                       !.error = NoError,
                                       !.timestamp = now]
                   ELSE status]

\* the concatenation of a sequence of sequences
RECURSIVE Flatten(_)
Flatten(ss) == IF ss = <<>> THEN <<>> ELSE Head(ss) \o Flatten(Tail(ss))

\* "check if there is a waiting task" of repoChangeCalculator
RepoTeamOperationFound(operations, team, repo, kind) ==
    \E i \in 1..Len(operations) :
        /\ EqualFold(operations[i].Team, team)
        /\ operations[i].Repo = repo
        /\ operations[i].Operation = kind
        /\ operations[i].State # "complete"

\* a team assigned with another permission than configured: remove it and
\* add it with the configured permission, unless such tasks are waiting
PermissionMismatchOps(repo, team, configTeam, operations) ==
    (IF RepoTeamOperationFound(operations, team.Team, repo.Name, "remove") THEN <<>>
     ELSE <<RepoOp("remove", repo.Name, team.Team, "")>>)
    \o
    (IF RepoTeamOperationFound(operations, team.Team, repo.Name, "add") THEN <<>>
     ELSE <<RepoOp("add", repo.Name, configTeam.Team, configTeam.Permission)>>)

\* "ensure that default teams are assigned": the operations for one
\* configured team of one repository
ConfigTeamOps(repo, configTeam, operations) ==
    Flatten([j \in 1..Len(repo.Teams) |->
        IF /\ repo.Teams[j].Team = configTeam.Team
           /\ repo.Teams[j].Permission # configTeam.Permission
        THEN PermissionMismatchOps(repo, repo.Teams[j], configTeam, operations)
        ELSE <<>>])
    \o
    (IF /\ \A j \in 1..Len(repo.Teams) : repo.Teams[j].Team # configTeam.Team
        /\ ~RepoTeamOperationFound(operations, configTeam.Team, repo.Name, "add")
     THEN <<RepoOp("add", repo.Name, configTeam.Team, configTeam.Permission)>>
     ELSE <<>>)

\* "iterate over the teams in the repo": the operations for one assigned
\* team of one repository
RepoTeamOps(repo, team, config, operations) ==
    Flatten([k \in 1..Len(config) |->
        IF team.Team = config[k].Team /\ team.Permission # config[k].Permission
        THEN PermissionMismatchOps(repo, team, config[k], operations)
        ELSE <<>>])
    \o
    (IF /\ \A k \in 1..Len(config) : team.Team # config[k].Team
        /\ ~RepoTeamOperationFound(operations, team.Team, repo.Name, "remove")
     THEN <<RepoOp("remove", repo.Name, team.Team, "")>>
     ELSE <<>>)

\* the teams configured for a repository: the defaults unless the
\* repository is on the skip list, then the TeamRepository overrides
ConfigExtendedWithExceptions(defaultConfig, repo, exceptions, skipList) ==
    (IF repo.Name \in skipList THEN <<>> ELSE defaultConfig)
    \o
    Flatten([e \in 1..Len(exceptions) |->
        IF repo.Name \in exceptions[e].Repository
        THEN <<[Team |-> exceptions[e].Team, Permission |-> exceptions[e].Permission]>>
        ELSE <<>>])

repoChangeCalculator(defaultConfig, actual, exceptions, skipList, operations) ==
    Flatten([r \in 1..Len(actual) |->
        LET repo == actual[r]
            config == ConfigExtendedWithExceptions(defaultConfig, repo, exceptions, skipList)
        IN Flatten([k \in 1..Len(config) |-> ConfigTeamOps(repo, config[k], operations)])
           \o
           Flatten([j \in 1..Len(repo.Teams) |->
                       RepoTeamOps(repo, repo.Teams[j], config, operations)])])

\* GithubOrganization.RepoChangeCalculator: the repositories are the lists
\* of the status it is called on
RepoChangeCalculator(spec, status, exceptions, now) ==
    LET failedWith(kind) == [status EXCEPT !.orgStatus = "failed",
                                           !.error = Err(kind),
                                           !.timestamp = now]
        privateOps == repoChangeCalculator(spec.defaultPrivateRepositoryTeams,
                          status.privateRepos, exceptions, spec.skipList,
                          status.operations.repo)
        publicOps == repoChangeCalculator(spec.defaultPublicRepositoryTeams,
                          status.publicRepos, exceptions, spec.skipList,
                          status.operations.repo)
        changed == Len(privateOps) > 0 \/ Len(publicOps) > 0
    IN IF Len(spec.defaultPrivateRepositoryTeams) = 0
       THEN [changed |-> TRUE, status |-> failedWith("spec")]
       ELSE IF Len(spec.defaultPublicRepositoryTeams) = 0
       THEN [changed |-> TRUE, status |-> failedWith("spec")]
       ELSE [changed |-> changed,
             status |-> IF changed
                        THEN [status EXCEPT
                                 !.operations.repo = @ \o privateOps \o publicOps,
                                 !.orgStatus = "pending",
                                 !.error = NoError,
                                 !.timestamp = now]
                        ELSE status]

\* uniquePendingOrFailedRepoNames
uniquePendingOrFailedRepoNames(ops) ==
    {ops[i].Repo : i \in {j \in 1..Len(ops) :
        ops[j].State \in {"pending", "failed"} /\ ops[j].Repo # ""}}

\* ------------------------------------------------------------ the state
VARIABLES
    team,      \* the GithubTeam in the Store: labels, source of members, status
    forge,     \* the forge team: does it exist, and its member logins
    env,       \* the resources and registries a team pass looks up
    desired,   \* the identifiers the team's member source returns
    now,       \* the clock
    last,      \* the team pass that has just returned: the resource it
               \* started from, its Forge calls, its status writes, its result
    org,       \* the GithubOrganization in the Store: labels, spec, status
    orgForge,  \* the forge organization: owners, teams, repositories
    orgEnv,    \* the resources an organization pass looks up
    lastOrg    \* the organization pass that has just returned

vars == <<team, forge, env, desired, now, last, org, orgForge, orgEnv, lastOrg>>

\* the state of the GithubOrganization, left alone by the team's actions
orgVars == <<org, orgForge, orgEnv>>

\* labels of a GithubTeam; nil is Labels == nil, "" an absent key,
\* a TTL below zero an absent or unparsable duration
NoLabels ==
    [nil |-> TRUE, dryRun |-> "", addUser |-> "", removeUser |-> "",
     orphaned |-> "", disableInternalUsernames |-> "", requiredDomain |-> "",
     failedTTL |-> -1, completedTTL |-> -1, notfoundTTL |-> -1,
     skippedTTL |-> -1]

EmptyStatus ==
    [teamStatus |-> "", error |-> NoError, timestamp |-> ZeroTime,
     operations |-> <<>>, members |-> <<>>]

\* ------------------------------------------- one pass: its bookkeeping
\* The context of a running pass: t is the githubTeam object the pass read
\* at its start, store the object in the Store, stale whether the Store
\* holds a newer resourceVersion than t, fg the Forge, calls the Forge
\* calls issued so far, writes the statuses persisted so far.
StartPass(t, fg) ==
    [t |-> t, store |-> t, stale |-> FALSE, fg |-> fg, calls |-> <<>>,
     writes |-> <<>>, done |-> FALSE, err |-> FALSE, delay |-> "none",
     after |-> 0]

\* return reconcile.Result{...}, nil
Return(c, delay, after) ==
    IF c.done THEN c
    ELSE [c EXCEPT !.done = TRUE, !.delay = delay, !.after = after]

\* return reconcile.Result{}, err
ReturnErr(c) == IF c.done THEN c ELSE [c EXCEPT !.done = TRUE, !.err = TRUE]

\* r.Client.Status().Update(ctx, githubTeam): a conflict when the Store
\* holds a newer version, and every caller returns the error
StatusUpdate(c, status) ==
    IF c.stale
    THEN [c EXCEPT !.t.status = status, !.done = TRUE, !.err = TRUE]
    ELSE [c EXCEPT !.t.status = status, !.store.status = status,
                   !.writes = Append(@, status)]

\* r.Get of a fresh copy, assignment to its status, Status().Update: the
\* object read at the start of the pass is outdated from here on
FreshStatusUpdate(c, status) ==
    [c EXCEPT !.store.status = status, !.stale = TRUE,
              !.writes = Append(@, status)]

\* r.Update(ctx, githubTeam) after setting the orphaned label
LabelOrphaned(c) ==
    IF c.stale
    THEN [c EXCEPT !.done = TRUE, !.err = TRUE]
    ELSE [c EXCEPT !.t.labels.nil = FALSE, !.t.labels.orphaned = "true",
                   !.store.labels.nil = FALSE, !.store.labels.orphaned = "true"]

\* the fault the next Forge call of the pass meets: the Forge fails every
\* call from the failFrom-th on
NextFault(c, in) ==
    IF in.fault # "none" /\ Len(c.calls) + 1 >= in.failFrom
    THEN in.fault ELSE "none"

FaultErr(fault, in) ==
    [kind |-> fault, until |-> IF fault = "ratelimit" THEN in.until ELSE 0]

Called(c, name, arg, fault) ==
    [c EXCEPT !.calls = Append(@, [name |-> name, arg |-> arg, fault |-> fault])]

\* Forge calls that change the Forge
MutatingCalls == {"AddTeam", "AddUser", "RemoveUser"}

\* ------------------------------------------ GithubTeamReconciler.Reconcile
\* a prologue that clears a stored rate-limit error whatever its reset time
RateLimitPhaseIgnoringReset(c, in) ==
    LET st == c.t.status
        p == parseGitHubRateLimitReset(st.error, in.now)
    IN IF st.teamStatus = "ratelimited" /\ st.error.kind # "none" /\ p.ok
       THEN StatusUpdate(c, [st EXCEPT !.error = NoError,
                                       !.teamStatus = RecomputeStatus(st.operations),
                                       !.timestamp = in.now])
       ELSE c

\* previously rate-limited: honour the reset time of the stored error
RateLimitPhase(c, in) ==
    LET st == c.t.status
        p == parseGitHubRateLimitReset(st.error, in.now)
    IN IF st.teamStatus = "ratelimited" /\ st.error.kind # "none" /\ p.ok
       THEN IF p.at > in.now
            THEN Return(c, "reset", p.at - in.now)
            ELSE StatusUpdate(c, [st EXCEPT !.error = NoError,
                                            !.teamStatus = RecomputeStatus(st.operations),
                                            !.timestamp = in.now])
       ELSE c

\* the queue without its first operation in the given state
RECURSIVE RemoveFirstInState(_, _)
RemoveFirstInState(ops, state) ==
    IF ops = <<>> THEN ops
    ELSE IF Head(ops).State = state THEN Tail(ops)
    ELSE <<Head(ops)>> \o RemoveFirstInState(Tail(ops), state)

\* a TTL block that removes one operation per run and keeps the timestamp
TTLCleanupOneByOne(c, in, ttl, state) ==
    LET st == c.t.status
        newOps == RemoveFirstInState(st.operations, state)
    IN IF /\ ~c.done
          /\ ~c.t.labels.nil
          /\ st.timestamp # ZeroTime
          /\ ttlExpired(ttl, st.timestamp, in.now)
          /\ Len(newOps) # Len(st.operations)
       THEN Return(StatusUpdate(c,
                [st EXCEPT !.operations = newOps,
                           !.error = IF state = "failed" THEN NoError ELSE @,
                           !.teamStatus = RecomputeStatus(newOps)]), "none", 0)
       ELSE c

\* one TTL block: remove the operations in the given state once the
\* status timestamp is older than the TTL, recompute, write, return
TTLCleanup(c, in, ttl, state) ==
    LET st == c.t.status
        newOps == RemoveState(st.operations, state)
        guard == IF state = "failed" THEN st.teamStatus = "failed" ELSE TRUE
        changed == \/ Len(newOps) # Len(st.operations)
                   \/ (state = "failed" /\ st.error.kind # "none")
    IN IF /\ ~c.done
          /\ ~c.t.labels.nil
          /\ guard
          /\ st.timestamp # ZeroTime
          /\ ttlExpired(ttl, st.timestamp, in.now)
          /\ changed
       THEN Return(StatusUpdate(c,
                [st EXCEPT !.operations = newOps,
                           !.error = IF state = "failed" THEN NoError ELSE @,
                           !.teamStatus = RecomputeStatus(newOps),
                           !.timestamp = in.now]), "none", 0)
       ELSE c

\* the four TTL blocks in the order of the code
TTLPhase(c, in) ==
    LET l == c.t.labels
        c1 == TTLCleanup(c, in, l.failedTTL, "failed")
        c2 == TTLCleanup(c1, in, l.completedTTL, "complete")
        c3 == TTLCleanup(c2, in, l.notfoundTTL, "notfound")
    IN TTLCleanup(c3, in, l.skippedTTL, "skipped")

\* computeMinTTL: 0 means no TTL label to wait for
MinTTLStep(min, d) == IF d >= 0 /\ (min = 0 \/ d < min) THEN d ELSE min

computeMinTTL(l) ==
    IF l.nil THEN 0
    ELSE MinTTLStep(MinTTLStep(MinTTLStep(MinTTLStep(0, l.failedTTL),
            l.completedTTL), l.notfoundTTL), l.skippedTTL)

\* set the status to failed with an error, write it, return
FailWith(c, in, kind, delay, after) ==
    Return(StatusUpdate(c, [c.t.status EXCEPT !.teamStatus = "failed",
                                              !.error = Err(kind),
                                              !.timestamp = in.now]),
           delay, after)

\* checks of the referenced resources and of the spec fields
ValidatePhase(c, in) ==
    IF ~in.env.namesProvided
    THEN LET d == computeMinTTL(c.t.labels)
         IN FailWith(c, in, "spec", IF d > 0 THEN "ttl" ELSE "none", d)
    ELSE IF ~in.env.githubExists THEN FailWith(c, in, "spec", "none", 0)
    ELSE IF ~in.env.clientRegistered THEN Return(c, "immediate", 0)
    ELSE IF ~in.env.orgExists THEN FailWith(c, in, "spec", "none", 0)
    ELSE IF c.t.source = "both" THEN FailWith(c, in, "spec", "none", 0)
    ELSE IF c.t.source = "none" THEN LabelOrphaned(c)
    ELSE c

\* ------------------------------------------------- identity translation
HasLinkForID(id) == \E l \in AccountLinks : l.GreenhouseUserID = id

HasLinkForUID(uid) == \E l \in AccountLinks : l.GithubUserID = uid

\* idMap: GreenhouseUserID -> GithubUserID
idMap(id) == (CHOOSE l \in AccountLinks : l.GreenhouseUserID = id).GithubUserID

\* revMap: GithubUserID -> GreenhouseUserID
revMap(uid) == (CHOOSE l \in AccountLinks : l.GithubUserID = uid).GreenhouseUserID

\* the Forge's users: by numeric id, and by login (case-insensitive)
UIDKnown(uid) == \E i \in 1..Len(ForgeLogins) : UIDOf(ForgeLogins[i]) = uid

LoginOfUID(uid) ==
    ForgeLogins[CHOOSE i \in 1..Len(ForgeLogins) : UIDOf(ForgeLogins[i]) = uid]

LoginKnown(name) == \E i \in 1..Len(ForgeLogins) : EqualFold(ForgeLogins[i], name)

CanonicalLogin(name) ==
    ForgeLogins[CHOOSE i \in 1..Len(ForgeLogins) : EqualFold(ForgeLogins[i], name)]

\* extendGithubMembersWithGreenhouseIDs: forge logins to members
RECURSIVE extendGithubMembersWithGreenhouseIDs(_)
extendGithubMembersWithGreenhouseIDs(logins) ==
    IF logins = <<>> THEN <<>>
    ELSE LET login == Head(logins)
             id == IF HasLinkForUID(UIDOf(login)) THEN revMap(UIDOf(login)) ELSE login
         IN <<Member(id, login)>> \o extendGithubMembersWithGreenhouseIDs(Tail(logins))

\* the email-check-results entry of a link for the organization of the
\* team when the annotation is missing, unparsable or has no such entry
NoEmailCheck == [domain |-> "", verified |-> FALSE]

\* a filter that takes any verified entry, whatever its domain
IncludeMemberOfAnyDomain(ghID, requiredDomain, in) ==
    \/ requiredDomain = ""
    \/ (HasLinkForID(ghID) /\ in.env.emailChecks[ghID].verified)

\* the verified-domain filter of one member
IncludeMember(ghID, requiredDomain, in) ==
    \/ requiredDomain = ""
    \/ /\ HasLinkForID(ghID)
       /\ in.env.emailChecks[ghID].domain = requiredDomain
       /\ in.env.emailChecks[ghID].verified

\* extendGreenhouseMembersWithGithubUsernames: a record of the context
\* after the user lookups (c), the members (out) and whether a lookup
\* failed (failed)
RECURSIVE extendGreenhouseMembersWithGithubUsernames(_, _, _, _, _)
extendGreenhouseMembersWithGithubUsernames(c, ids, out, requiredDomain, in) ==
    IF ids = <<>> THEN [c |-> c, out |-> out, failed |-> FALSE]
    ELSE
    LET input == Head(ids)
        f1 == NextFault(c, in)
    IN IF HasLinkForID(input)
       THEN \* case A: the input is an internal id
            LET c1 == Called(c, "GithubUsernameByID", idMap(input), f1)
                login == IF UIDKnown(idMap(input)) THEN LoginOfUID(idMap(input)) ELSE input
                out1 == IF IncludeMember(input, requiredDomain, in)
                        THEN Append(out, Member(input, login)) ELSE out
            IN IF f1 # "none" THEN [c |-> c1, out |-> <<>>, failed |-> TRUE]
               ELSE extendGreenhouseMembersWithGithubUsernames(c1, Tail(ids), out1, requiredDomain, in)
       ELSE \* case B: the input may be a forge login
            LET c1 == Called(c, "GithubIDByUsername", input, f1)
                f2 == NextFault(c1, in)
                uid == UIDOf(CanonicalLogin(input))
                c2 == Called(c1, "GithubUsernameByID", uid, f2)
                ghID == IF HasLinkForUID(uid) THEN revMap(uid) ELSE input
                outFound == IF IncludeMember(ghID, requiredDomain, in)
                            THEN Append(out, Member(ghID, CanonicalLogin(input))) ELSE out
                outMissing == IF IncludeMember(input, requiredDomain, in)
                              THEN Append(out, Member(input, input)) ELSE out
            IN IF f1 # "none" THEN [c |-> c1, out |-> <<>>, failed |-> TRUE]
               ELSE IF ~LoginKnown(input)
               THEN extendGreenhouseMembersWithGithubUsernames(c1, Tail(ids), outMissing, requiredDomain, in)
               ELSE IF f2 # "none" THEN [c |-> c2, out |-> <<>>, failed |-> TRUE]
               ELSE extendGreenhouseMembersWithGithubUsernames(c2, Tail(ids), outFound, requiredDomain, in)

\* "do not use internal usernames externally"
FilterInternalUsernames(members) ==
    SelectSeq(members, LAMBDA m : m.GreenhouseID # m.GithubUsername)

\* ------------------------------------------------- the status check
\* a Forge error in the status check: rate limit, or plain error return
RateLimited(c, in, err) ==
    LET p == parseGitHubRateLimitReset(err, in.now)
    IN Return(StatusUpdate(c, [c.t.status EXCEPT !.teamStatus = "ratelimited",
                                                 !.error = err,
                                                 !.timestamp = in.now]),
              "reset", IF p.at > in.now THEN p.at - in.now ELSE 0)

ForgeCallFailed(c, in, err) ==
    IF parseGitHubRateLimitReset(err, in.now).ok
    THEN RateLimited(c, in, err)
    ELSE ReturnErr(c)

\* the identifiers of the member source: the context, the identifiers
ResolveMembers(c, in) ==
    LET src == c.t.source
    IN IF src = "greenhouse"
       THEN IF ~in.env.siblingExists
            THEN [c |-> Return(LabelOrphaned(c), "none", 0), ids |-> <<>>]
            ELSE [c |-> c, ids |-> in.desired]
       ELSE IF src \in {"ldap", "http", "static"}
       THEN IF src # "static" /\ ~in.env.providerExists
            THEN [c |-> FailWith(c, in, "provider", "none", 0), ids |-> <<>>]
            ELSE IF ~in.env.providerRegistered
            THEN [c |-> Return(c, "1s", 0), ids |-> <<>>]
            ELSE IF in.env.providerFails
            THEN [c |-> FailWith(c, in, "provider", "none", 0), ids |-> <<>>]
            ELSE [c |-> c, ids |-> in.desired]
       ELSE [c |-> c, ids |-> <<>>]

\* from the desired members on: translate, filter, calculate, write
CalculatePhase(c, in) ==
    LET Write(cx, wanted, calc) ==
            IF calc.changed
            THEN Return(FreshStatusUpdate(cx, [calc.status EXCEPT !.members = wanted]),
                        "none", 0)
            ELSE IF cx.t.status.teamStatus = ""
            THEN StatusUpdate(cx, [cx.t.status EXCEPT !.teamStatus = "complete",
                                                      !.timestamp = in.now])
            ELSE cx
        Calculate(cx, wanted) ==
            Write(cx, wanted, ChangeCalculator(cx.t.status, wanted, in.now))
        Filter(x) ==
            IF x.failed THEN ReturnErr(x.c)
            ELSE Calculate(x.c,
                     IF ~x.c.t.labels.nil /\ x.c.t.labels.disableInternalUsernames = "true"
                     THEN FilterInternalUsernames(x.out) ELSE x.out)
        Translate(r) ==
            IF r.c.done THEN r.c
            ELSE Filter(extendGreenhouseMembersWithGithubUsernames(
                            r.c, r.ids, <<>>, r.c.t.labels.requiredDomain, in))
    IN Translate(ResolveMembers(c, in))

\* the forge members against status.members
MembersPhase(c, in) ==
    LET f == NextFault(c, in)
        c1 == Called(c, "MembersExtended", "", f)
        fetched == extendGithubMembersWithGreenhouseIDs(InOrder(c.fg.members, ForgeLogins))
        c2 == IF ~elementsMatch(c1.t.status.members, fetched)
              THEN FreshStatusUpdate(c1, [c1.store.status EXCEPT !.members = fetched])
              ELSE c1
    IN IF f # "none" THEN ForgeCallFailed(c1, in, FaultErr(f, in))
       ELSE CalculatePhase(c2, in)

\* "there are no pending operations, status check started"
StatusCheckPhase(c, in) ==
    LET f1 == NextFault(c, in)
        c1 == Called(c, "List", "", f1)
        f2 == NextFault(c1, in)
        c2 == Called(c1, "AddTeam", "", f2)
    IN IF c.t.status.teamStatus = "pending" THEN c
       ELSE IF f1 # "none" THEN ForgeCallFailed(c1, in, FaultErr(f1, in))
       ELSE IF ~c.fg.teamExists
       THEN IF f2 # "none" THEN ForgeCallFailed(c2, in, FaultErr(f2, in))
            ELSE Return([c2 EXCEPT !.fg.teamExists = TRUE], "immediate", 0)
       ELSE MembersPhase(c1, in)

\* ------------------------------------------------------------- dry run
DryRunPhase(c, in) ==
    LET st == c.t.status
        c1 == IF c.t.labels.nil THEN c
              ELSE IF c.t.labels.dryRun = "true"
              THEN IF st.teamStatus # "dry-run"
                   THEN Return(StatusUpdate(c, [st EXCEPT !.teamStatus = "dry-run",
                                                          !.timestamp = in.now]),
                               "immediate", 0)
                   ELSE c
              ELSE IF st.teamStatus = "dry-run"
                   THEN Return(StatusUpdate(c,
                            [st EXCEPT !.teamStatus = RecomputeStatus(st.operations),
                                       !.timestamp = in.now]),
                               "immediate", 0)
                   ELSE c
    IN IF ~c1.done /\ c1.t.status.teamStatus = "dry-run"
       THEN Return(c1, "none", 0)
       ELSE c1

\* ------------------------------------------- executing the operations
\* DefaultTeamsProvider.AddUser: (userFound, err) for a Forge answer;
\* answer is a fault, "404" or "ok"
AddUser(answer) ==
    IF answer = "ok" THEN [userFound |-> TRUE, err |-> ""]
    ELSE IF answer = "404" THEN [userFound |-> FALSE, err |-> "user not found in github"]
    ELSE IF answer \in {"ratelimit", "invitation", "http500"}
    THEN [userFound |-> TRUE, err |-> "response code"]
    ELSE [userFound |-> FALSE, err |-> answer]

\* DefaultTeamsProvider.RemoveUser: the error for a Forge answer
RemoveUser(answer) == IF answer = "ok" THEN "" ELSE answer

\* the Forge's answer to a membership call for a user
ForgeAnswer(fault, user) ==
    IF fault # "none" THEN fault
    ELSE IF LoginKnown(user) THEN "ok" ELSE "404"

\* a gate that reads the addUser label for both kinds
GateClosedByAddLabel(labels, kind) ==
    ~labels.nil /\ labels.addUser # "" /\ labels.addUser # "true"

\* the label gate of an operation kind: TRUE when the kind is disabled
GateClosed(labels, kind) ==
    LET v == IF kind = "add" THEN labels.addUser ELSE labels.removeUser
    IN ~labels.nil /\ v # "" /\ v # "true"

\* one pending add: the context and the flags after it
ExecAdd(a, i, in) ==
    LET user == a.ops[i].User
        f == NextFault(a.c, in)
        answer == ForgeAnswer(f, user)
        r == AddUser(answer)
        c1 == Called(a.c, "AddUser", user, f)
        c2 == IF answer = "ok"
              THEN [c1 EXCEPT !.fg.members = @ \cup {CanonicalLogin(user)}] ELSE c1
    IN IF GateClosed(a.c.t.labels, "add")
       THEN [a EXCEPT !.ops[i].State = "skipped", !.changed = TRUE, !.failed = FALSE]
       ELSE IF ~r.userFound
       THEN [a EXCEPT !.c = c2, !.ops[i].State = "notfound",
                      !.ops[i].Error = "user not found on GitHub", !.changed = TRUE]
       ELSE IF r.err # ""
       THEN [a EXCEPT !.c = c2, !.ops[i].State = "failed", !.ops[i].Error = r.err,
                      !.changed = TRUE, !.failed = TRUE]
       ELSE [a EXCEPT !.c = c2, !.ops[i].State = "complete", !.changed = TRUE]

\* one pending remove
ExecRemove(a, i, in) ==
    LET user == a.ops[i].User
        f == NextFault(a.c, in)
        answer == ForgeAnswer(f, user)
        err == RemoveUser(answer)
        c1 == Called(a.c, "RemoveUser", user, f)
        c2 == IF answer = "ok"
              THEN [c1 EXCEPT !.fg.members = @ \ {CanonicalLogin(user)}] ELSE c1
    IN IF GateClosed(a.c.t.labels, "remove")
       THEN [a EXCEPT !.ops[i].State = "skipped", !.changed = TRUE, !.failed = FALSE]
       ELSE IF err # ""
       THEN [a EXCEPT !.c = c2, !.ops[i].State = "failed", !.ops[i].Error = err,
                      !.changed = TRUE, !.failed = TRUE]
       ELSE [a EXCEPT !.c = c2, !.ops[i].State = "complete", !.changed = TRUE]

\* the loop over newStatus.Operations
RECURSIVE ExecLoop(_, _, _)
ExecLoop(a, i, in) ==
    IF i > Len(a.ops) THEN a
    ELSE IF a.ops[i].State # "pending" THEN ExecLoop(a, i + 1, in)
    ELSE IF a.ops[i].Operation = "add" THEN ExecLoop(ExecAdd(a, i, in), i + 1, in)
    ELSE ExecLoop(ExecRemove(a, i, in), i + 1, in)

\* a loop that always ends in failed
StatusAfterExecFailed(failed) == "failed"

\* the status after the loop: failed or complete by the failed flag
StatusAfterExec(failed) == IF failed THEN "failed" ELSE "complete"

\* "there are pending operations in the status"
ExecPhase(c, in) ==
    LET Finish(a) ==
            IF a.changed
            THEN Return(FreshStatusUpdate(a.c,
                     [a.c.t.status EXCEPT !.operations = a.ops,
                                          !.teamStatus = StatusAfterExec(a.failed),
                                          !.timestamp = in.now]), "none", 0)
            ELSE a.c
    IN IF c.t.status.teamStatus # "pending" THEN c
       ELSE Finish(ExecLoop([c |-> c, ops |-> c.t.status.operations,
                             changed |-> FALSE, failed |-> FALSE], 1, in))

\* the whole pass
Reconcile(t, fg, in) ==
    LET Then(c, Phase(_, _)) == IF c.done THEN c ELSE Phase(c, in)
        c1 == RateLimitPhase(StartPass(t, fg), in)
        c2 == Then(c1, TTLPhase)
        c3 == Then(c2, ValidatePhase)
        c4 == Then(c3, StatusCheckPhase)
        c5 == Then(c4, DryRunPhase)
        c6 == Then(c5, ExecPhase)
    IN Return(c6, "none", 0)

\* ------------------------------ GithubOrganizationReconciler.Reconcile
\* labels of a GithubOrganization; "" is an absent key
OrgNoLabels ==
    [nil |-> TRUE, dryRun |-> "", addOrganizationOwner |-> "",
     removeOrganizationOwner |-> "", addTeam |-> "", removeTeam |-> "",
     addRepositoryTeam |-> "", removeRepositoryTeam |-> "",
     cleanOperations |-> "", failedTTL |-> -1, completedTTL |-> -1]

OrgEmptyStatus ==
    [orgStatus |-> "", error |-> NoError, timestamp |-> ZeroTime,
     owners |-> <<>>, teams |-> <<>>, publicRepos |-> <<>>, privateRepos |-> <<>>,
     outOfPolicy |-> {}, operations |-> NoOperations]

\* previously rate-limited: honour the reset time of the stored error
OrgRateLimitPhase(c, in) ==
    LET st == c.t.status
        p == parseGitHubRateLimitReset(st.error, in.now)
    IN IF st.orgStatus = "ratelimited" /\ st.error.kind # "none" /\ p.ok
       THEN IF p.at > in.now
            THEN Return(c, "reset", p.at - in.now)
            ELSE StatusUpdate(c, [st EXCEPT !.error = NoError,
                                            !.orgStatus = OrgRecomputeStatus(st.operations),
                                            !.timestamp = in.now])
       ELSE c

\* the failedTTL block, then the completedTTL block
OrgTTLCleanup(c, in, ttl, state) ==
    LET st == c.t.status
        newOps == CleanOperations(st.operations, state)
        guard == IF state = "failed" THEN st.orgStatus = "failed" ELSE TRUE
        changed == \/ newOps # st.operations
                   \/ (state = "failed" /\ st.error.kind # "none")
    IN IF /\ ~c.done
          /\ ~c.t.labels.nil
          /\ guard
          /\ st.timestamp # ZeroTime
          /\ ttlExpired(ttl, st.timestamp, in.now)
          /\ changed
       THEN Return(StatusUpdate(c,
                [st EXCEPT !.operations = newOps,
                           !.error = IF state = "failed" THEN NoError ELSE @,
                           !.orgStatus = OrgRecomputeStatus(newOps),
                           !.timestamp = in.now]), "none", 0)
       ELSE c

OrgTTLPhase(c, in) ==
    OrgTTLCleanup(OrgTTLCleanup(c, in, c.t.labels.failedTTL, "failed"),
                  in, c.t.labels.completedTTL, "complete")

\* set the organization status to failed with an error, write it, return
OrgFailWith(c, in, kind) ==
    Return(StatusUpdate(c, [c.t.status EXCEPT !.orgStatus = "failed",
                                              !.error = Err(kind),
                                              !.timestamp = in.now]), "none", 0)

\* the spec fields, the Github resource and its registered client
OrgValidatePhase(c, in) ==
    IF ~in.env.namesProvided THEN OrgFailWith(c, in, "spec")
    ELSE IF ~in.env.githubExists THEN OrgFailWith(c, in, "spec")
    ELSE IF ~in.env.clientRegistered THEN Return(c, "1s", 0)
    ELSE c

\* a failed read of the status check: ratelimited with a requeue at the
\* reset, or failed
OrgReadFailed(c, in, err) ==
    LET p == parseGitHubRateLimitReset(err, in.now)
    IN IF p.ok
       THEN Return(StatusUpdate(c, [c.t.status EXCEPT !.orgStatus = "ratelimited",
                                                      !.error = err,
                                                      !.timestamp = in.now]),
                   "reset", IF p.at > in.now THEN p.at - in.now ELSE 0)
       ELSE Return(StatusUpdate(c, [c.t.status EXCEPT !.orgStatus = "failed",
                                                      !.error = err,
                                                      !.timestamp = in.now]),
                   "none", 0)

\* ownersFromGithubTeams: the members of the owner teams, or retry later,
\* or an error
ownersFromGithubTeams(ownerTeams, teams) ==
    LET notReady == \E i \in 1..Len(ownerTeams) :
            /\ \A j \in 1..(i - 1) :
                  /\ teams[ownerTeams[j]].exists
                  /\ teams[ownerTeams[j]].teamStatus \in {"complete", "dry-run"}
            /\ \/ ~teams[ownerTeams[i]].exists
               \/ teams[ownerTeams[i]].teamStatus \notin {"failed", "complete", "dry-run"}
        failed == \E i \in 1..Len(ownerTeams) :
            /\ \A j \in 1..(i - 1) :
                  /\ teams[ownerTeams[j]].exists
                  /\ teams[ownerTeams[j]].teamStatus \in {"complete", "dry-run"}
            /\ teams[ownerTeams[i]].exists
            /\ teams[ownerTeams[i]].teamStatus = "failed"
    IN [retryLater |-> notReady, err |-> failed,
        owners |-> IF notReady \/ failed THEN <<>>
                   ELSE Flatten([i \in 1..Len(ownerTeams) |-> teams[ownerTeams[i]].members])]

\* both gates of a class set to "false": the class is not compared
BothFalse(labels, a, b) == ~labels.nil /\ labels[a] = "false" /\ labels[b] = "false"

\* a status that carries the repository lists without the lists
CompactStatusKeepingLists(newStatus) ==
    [newStatus EXCEPT
        !.outOfPolicy = uniquePendingOrFailedRepoNames(newStatus.operations.repo)]

\* "populate compact out-of-policy repository list and clear bulky repo
\* lists"
CompactStatus(newStatus) ==
    [newStatus EXCEPT
        !.outOfPolicy = uniquePendingOrFailedRepoNames(newStatus.operations.repo),
        !.publicRepos = <<>>, !.privateRepos = <<>>]

\* PART 3: repository comparison on a copy of the resource that carries the
\* freshly fetched lists
OrgRepoDiff(c, in) ==
    LET temp == [c.t.status EXCEPT !.privateRepos = c.fg.privateRepos,
                                   !.publicRepos = c.fg.publicRepos]
        Write(calc) ==
            IF calc.changed
            THEN Return(StatusUpdate(c, CompactStatus(calc.status)), "none", 0)
            ELSE c
    IN IF BothFalse(c.t.labels, "addRepositoryTeam", "removeRepositoryTeam") THEN c
       ELSE Write(RepoChangeCalculator(c.t.spec, temp, in.env.exceptions, in.now))

\* Part 2: team comparison
OrgTeamDiff(c, in) ==
    LET calc == TeamChangeCalculator(c.t.status, in.env.k8sTeams, in.now)
    IN IF BothFalse(c.t.labels, "addTeam", "removeTeam") THEN c
       ELSE IF calc.changed THEN Return(StatusUpdate(c, calc.status), "none", 0)
       ELSE c

\* an owner comparison that takes an empty list of owners as the desired one
OrgOwnerDiffOfEmptyOwners(c, in) ==
    LET o == ownersFromGithubTeams(c.t.spec.organizationOwnerTeams, in.env.teams)
        calc == OwnerChangeCalculator(c.t.status, o.owners, in.now)
    IN IF BothFalse(c.t.labels, "addOrganizationOwner", "removeOrganizationOwner") THEN c
       ELSE IF o.retryLater THEN Return(c, "5s", 0)
       ELSE IF o.err THEN OrgFailWith(c, in, "owners")
       ELSE IF calc.changed
       THEN Return(FreshStatusUpdate(c, calc.status), "none", 0)
       ELSE c

\* PART 1: organization owner comparison
OrgOwnerDiff(c, in) ==
    LET o == ownersFromGithubTeams(c.t.spec.organizationOwnerTeams, in.env.teams)
        calc == OwnerChangeCalculator(c.t.status, o.owners, in.now)
    IN IF BothFalse(c.t.labels, "addOrganizationOwner", "removeOrganizationOwner") THEN c
       ELSE IF o.retryLater THEN Return(c, "5s", 0)
       ELSE IF o.err THEN OrgFailWith(c, in, "owners")
       ELSE IF Len(o.owners) = 0 THEN Return(c, "5s", 0)
       ELSE IF calc.changed
       THEN Return(FreshStatusUpdate(c, calc.status), "none", 0)
       ELSE c

\* the observed owners and teams against the status, then the three diffs
\* and the first-pass initialisation
OrgObservePhase(c, in) ==
    LET st == c.t.status
        fetchedOwners == extendGithubMembersWithGreenhouseIDs(InOrder(c.fg.owners, ForgeLogins))
        teamsList == InOrder(c.fg.teams, ForgeTeams)
        st1 == IF Len(st.publicRepos) > 0 \/ Len(st.privateRepos) > 0
               THEN [st EXCEPT !.publicRepos = <<>>, !.privateRepos = <<>>] ELSE st
        st2 == IF ~elementsMatch(st.owners, fetchedOwners)
               THEN [st1 EXCEPT !.owners = fetchedOwners] ELSE st1
        st3 == IF ~elementsMatch(st.teams, teamsList)
               THEN [st2 EXCEPT !.teams = teamsList] ELSE st2
        Then(cd, Diff(_, _)) == IF cd.done THEN cd ELSE Diff(cd, in)
        FirstRun(cd) ==
            IF cd.done THEN cd
            ELSE IF cd.t.status.orgStatus = ""
            THEN StatusUpdate(cd, [cd.t.status EXCEPT !.orgStatus = "complete",
                                                      !.error = NoError,
                                                      !.timestamp = in.now])
            ELSE cd
    IN IF st3 # st
       THEN Return(FreshStatusUpdate([c EXCEPT !.t.status = st3], st3), "none", 0)
       ELSE FirstRun(Then(Then(OrgOwnerDiff(c, in), OrgTeamDiff), OrgRepoDiff))

\* "there are no pending operations, status check started": the three reads
OrgStatusCheckPhase(c, in) ==
    LET f1 == NextFault(c, in)
        c1 == Called(c, "OwnersExtended", "", f1)
        f2 == NextFault(c1, in)
        c2 == Called(c1, "List", "", f2)
        f3 == NextFault(c2, in)
        c3 == Called(c2, "ExtendedList", "", f3)
    IN IF c.t.status.orgStatus = "pending" THEN c
       ELSE IF f1 # "none" THEN OrgReadFailed(c1, in, FaultErr(f1, in))
       ELSE IF f2 # "none" THEN OrgReadFailed(c2, in, FaultErr(f2, in))
       ELSE IF f3 # "none" THEN OrgReadFailed(c3, in, FaultErr(f3, in))
       ELSE OrgObservePhase(c3, in)

\* r.Update(ctx, githubOrganization) after deleting the cleanOperations label
RemoveCleanLabel(c) ==
    IF c.stale THEN [c EXCEPT !.done = TRUE, !.err = TRUE]
    ELSE Return([c EXCEPT !.t.labels.cleanOperations = "",
                          !.store.labels.cleanOperations = ""], "none", 0)

\* a cleaning that purges the operations and leaves the label in place
OrgCleanPhaseKeepingLabel(c, in) ==
    LET st == c.t.status
        state == c.t.labels.cleanOperations
        newOps == CleanOperations(st.operations, state)
    IN IF st.orgStatus # "dry-run" THEN c
       ELSE IF state \in {"complete", "failed"} /\ newOps # st.operations
       THEN Return(StatusUpdate(c, [st EXCEPT !.operations = newOps,
                                              !.timestamp = in.now]), "none", 0)
       ELSE Return(c, "none", 0)

\* status dry-run: clean the operations the cleanOperations label names
OrgCleanPhase(c, in) ==
    LET st == c.t.status
        state == c.t.labels.cleanOperations
        newOps == CleanOperations(st.operations, state)
    IN IF st.orgStatus # "dry-run" THEN c
       ELSE IF state \in {"complete", "failed"}
       THEN IF newOps # st.operations
            THEN Return(StatusUpdate(c, [st EXCEPT !.operations = newOps,
                                                   !.timestamp = in.now]), "none", 0)
            ELSE RemoveCleanLabel(c)
       ELSE Return(c, "none", 0)

\* dry run: enter, leave, clean
OrgDryRunPhase(c, in) ==
    LET st == c.t.status
        Clean(cd) == IF cd.done THEN cd ELSE OrgCleanPhase(cd, in)
        left == OrgRecomputeStatus(st.operations)
        c1 == IF c.t.labels.nil THEN c
              ELSE IF c.t.labels.dryRun = "true"
              THEN IF st.orgStatus # "dry-run"
                   THEN Return(StatusUpdate(c, [st EXCEPT !.orgStatus = "dry-run",
                                                          !.timestamp = in.now]),
                               "immediate", 0)
                   ELSE c
              ELSE IF st.orgStatus = "dry-run"
                   THEN Return(StatusUpdate(c,
                            [st EXCEPT !.orgStatus = left,
                                       !.error = IF left = "complete" THEN NoError ELSE @,
                                       !.timestamp = in.now]),
                               "immediate", 0)
                   ELSE c
    IN Clean(c1)

\* ------------------------------------ executing organization operations
\* OrganizationProvider.ChangeToOwner: the owners of the Forge afterwards
ChangeToOwner(owners, user) == owners \cup {CanonicalLogin(user)}

\* OrganizationProvider.ChangeToMember: the owners of the Forge afterwards
ChangeToMember(owners, user) == owners \ {CanonicalLogin(user)}

\* the Forge's answer to a role change: it refuses to demote the last admin
RoleAnswer(fault, owners, user, kind) ==
    IF fault # "none" THEN fault
    ELSE IF ~LoginKnown(user) THEN "404"
    ELSE IF kind = "remove" /\ owners = {CanonicalLogin(user)} THEN "last admin"
    ELSE "ok"

\* a controller that knows no last-admin answer
NeverLastAdmin(answer) == FALSE

\* strings.Contains(strings.ToLower(err.Error()), "last admin")
IsLastAdmin(answer) == answer = "last admin"

\* the label gate of an organization operation: TRUE when the class is
\* not enabled
OrgGateClosed(labels, key) == ~labels.nil /\ labels[key] # "true"

\* the flags after one operation was skipped, failed or completed
Skipped(a, queue, i) ==
    [a EXCEPT !.ops[queue][i].State = "skipped", !.changed = TRUE, !.failed = FALSE]

Failed(a, c, queue, i, err) ==
    [a EXCEPT !.c = c, !.ops[queue][i].State = "failed",
              !.ops[queue][i].Error = err, !.changed = TRUE, !.failed = TRUE]

Completed(a, c, queue, i) ==
    [a EXCEPT !.c = c, !.ops[queue][i].State = "complete", !.changed = TRUE]

\* one pending OrganizationOwnerOperation
ExecOwner(a, i, in) ==
    LET op == a.ops.owner[i]
        f == NextFault(a.c, in)
        answer == RoleAnswer(f, a.c.fg.owners, op.User, op.Operation)
        name == IF op.Operation = "add" THEN "ChangeToOwner" ELSE "ChangeToMember"
        key == IF op.Operation = "add" THEN "addOrganizationOwner"
               ELSE "removeOrganizationOwner"
        c1 == Called(a.c, name, op.User, f)
        c2 == IF answer # "ok" THEN c1
              ELSE IF op.Operation = "add"
              THEN [c1 EXCEPT !.fg.owners = ChangeToOwner(@, op.User)]
              ELSE [c1 EXCEPT !.fg.owners = ChangeToMember(@, op.User)]
    IN IF OrgGateClosed(a.c.t.labels, key) THEN Skipped(a, "owner", i)
       ELSE IF answer = "ok"
       THEN [Completed(a, c2, "owner", i) EXCEPT !.ownerChangeApplied = TRUE]
       ELSE IF op.Operation = "remove" /\ IsLastAdmin(answer)
       THEN [a EXCEPT !.c = c2, !.ops.owner[i].State = "skipped",
                      !.ops.owner[i].Error = answer, !.changed = TRUE]
       ELSE Failed(a, c2, "owner", i, answer)

\* one pending GithubTeamOperation
ExecTeam(a, i, in) ==
    LET op == a.ops.team[i]
        f == NextFault(a.c, in)
        name == IF op.Operation = "add" THEN "AddTeam" ELSE "RemoveTeam"
        key == IF op.Operation = "add" THEN "addTeam" ELSE "removeTeam"
        c1 == Called(a.c, name, op.Team, f)
        exists == \E t \in a.c.fg.teams : EqualFold(t, op.Team)
        answer == IF f # "none" THEN f
                  ELSE IF op.Operation = "remove" /\ ~exists THEN "404" ELSE "ok"
        c2 == IF answer # "ok" THEN c1
              ELSE IF op.Operation = "add"
              THEN [c1 EXCEPT !.fg.teams = IF exists THEN @ ELSE @ \cup {op.Team}]
              ELSE [c1 EXCEPT !.fg.teams = {t \in @ : ~EqualFold(t, op.Team)}]
    IN IF OrgGateClosed(a.c.t.labels, key) THEN Skipped(a, "team", i)
       ELSE IF answer = "ok" THEN Completed(a, c2, "team", i)
       ELSE Failed(a, c2, "team", i, answer)

\* the teams of a repository after RepositoryTeamAdd / RepositoryTeamRemove
RepositoryTeamAdd(teams, name, permission) ==
    SelectSeq(teams, LAMBDA t : t.Team # name)
        \o <<[Team |-> name, Permission |-> permission]>>

RepositoryTeamRemove(teams, name) == SelectSeq(teams, LAMBDA t : t.Team # name)

\* the repositories of one visibility after a repository-team call
ReposAfter(repos, op) ==
    [r \in 1..Len(repos) |->
        IF repos[r].Name # op.Repo THEN repos[r]
        ELSE [repos[r] EXCEPT !.Teams =
                 IF op.Operation = "add"
                 THEN RepositoryTeamAdd(@, op.Team, op.Permission)
                 ELSE RepositoryTeamRemove(@, op.Team)]]

\* one pending RepositoryTeamOperation
ExecRepo(a, i, in) ==
    LET op == a.ops.repo[i]
        f == NextFault(a.c, in)
        name == IF op.Operation = "add" THEN "RepositoryTeamAdd"
                ELSE "RepositoryTeamRemove"
        key == IF op.Operation = "add" THEN "addRepositoryTeam"
               ELSE "removeRepositoryTeam"
        c1 == Called(a.c, name, op.Repo, f)
        c2 == IF f # "none" THEN c1
              ELSE [c1 EXCEPT !.fg.privateRepos = ReposAfter(@, op),
                              !.fg.publicRepos = ReposAfter(@, op)]
    IN IF OrgGateClosed(a.c.t.labels, key) THEN Skipped(a, "repo", i)
       ELSE IF f = "none" THEN Completed(a, c2, "repo", i)
       ELSE Failed(a, c2, "repo", i, f)

\* one of the three loops over newStatus.Operations
RECURSIVE OrgExecLoop(_, _, _, _)
OrgExecLoop(a, queue, i, in) ==
    IF i > Len(a.ops[queue]) THEN a
    ELSE IF a.ops[queue][i].State # "pending" THEN OrgExecLoop(a, queue, i + 1, in)
    ELSE IF queue = "owner" THEN OrgExecLoop(ExecOwner(a, i, in), queue, i + 1, in)
    ELSE IF queue = "team" THEN OrgExecLoop(ExecTeam(a, i, in), queue, i + 1, in)
    ELSE OrgExecLoop(ExecRepo(a, i, in), queue, i + 1, in)

\* "there are pending operations in the status"
OrgExecPhase(c, in) ==
    LET a0 == [c |-> c, ops |-> c.t.status.operations, changed |-> FALSE,
               failed |-> FALSE, ownerChangeApplied |-> FALSE]
        a1 == OrgExecLoop(a0, "owner", 1, in)
        a2 == OrgExecLoop(a1, "team", 1, in)
        Finish(a) ==
            IF a.changed
            THEN Return(FreshStatusUpdate(a.c,
                     [a.c.t.status EXCEPT !.operations = a.ops,
                                          !.orgStatus = StatusAfterExec(a.failed),
                                          !.error = IF a.failed THEN @ ELSE NoError,
                                          !.timestamp = in.now]),
                     IF a.ownerChangeApplied /\ ~a.failed THEN "5s" ELSE "none", 0)
            ELSE a.c
    IN IF c.t.status.orgStatus # "pending" THEN c
       ELSE Finish(OrgExecLoop(a2, "repo", 1, in))

\* the whole pass
OrgReconcile(o, fg, in) ==
    LET Then(c, Phase(_, _)) == IF c.done THEN c ELSE Phase(c, in)
        c1 == OrgRateLimitPhase(StartPass(o, fg), in)
        c2 == Then(c1, OrgTTLPhase)
        c3 == Then(c2, OrgValidatePhase)
        c4 == Then(c3, OrgStatusCheckPhase)
        c5 == Then(c4, OrgDryRunPhase)
        c6 == Then(c5, OrgExecPhase)
    IN Return(c6, "none", 0)

\* Forge calls of an organization pass that change the Forge
OrgMutatingCalls ==
    {"ChangeToOwner", "ChangeToMember", "AddTeam", "RemoveTeam",
     "RepositoryTeamAdd", "RepositoryTeamRemove"}

\* ------------------------------------------------------------- actions
\* a Github or provider resource that was built: its status, whether its
\* spec and its credential secret are usable, and whether a request for it
\* waits in its controller's work queue
RunningResource ==
    [state |-> "running", timestamp |-> 0, specGood |-> TRUE,
     secretGood |-> TRUE, queued |-> FALSE]

\* nobody reads or writes a registry map
NoAccess == [writer |-> FALSE, readers |-> {}]

\* the resources and registries of a healthy cluster; access tells which
\* goroutines are inside a read or a write of each registry map, crashed
\* whether the Go runtime has thrown; teamQueued tells
\* whether a request for the GithubTeam waits in its controller's work queue
HealthyEnv ==
    [namesProvided |-> TRUE, githubExists |-> TRUE, clientRegistered |-> TRUE,
     orgExists |-> TRUE, siblingExists |-> TRUE, providerExists |-> TRUE,
     providerRegistered |-> TRUE, providerFails |-> FALSE,
     emailChecks |-> [id \in {"I1", "u3"} |-> NoEmailCheck],
     resources |-> [kind \in {"github", "provider"} |-> RunningResource],
     teamQueued |-> FALSE,
     access |-> [kind \in {"github", "provider"} |-> NoAccess],
     crashed |-> FALSE]

\* what the Forge does to the calls of one pass: nothing, or every call
\* from the failFrom-th on fails with the fault
NoFault == {[fault |-> "none", failFrom |-> 1, window |-> 0]}

Failing(faults, windows) ==
    [fault : faults, failFrom : 1..MaxFailFrom, window : windows]

NoPass ==
    [ran |-> FALSE, start |-> [labels |-> NoLabels, source |-> "", status |-> EmptyStatus],
     forge |-> [teamExists |-> FALSE, members |-> {}], calls |-> <<>>, writes |-> <<>>, delay |-> "none", after |-> 0, err |-> FALSE]

\* the GithubOrganization of the cluster: one owner team, the same default
\* team for private and public repositories
OrgSpec ==
    [organizationOwnerTeams |-> <<"owners">>,
     defaultPrivateRepositoryTeams |-> <<[Team |-> "tA", Permission |-> "push"]>>,
     defaultPublicRepositoryTeams |-> <<[Team |-> "tA", Permission |-> "pull"]>>,
     skipList |-> {}]

\* the forge organization before the first pass
NewOrganization ==
    [owners |-> {"u2"}, teams |-> {"tA"}, privateRepos |-> <<>>,
     publicRepos |-> <<>>]

\* the cluster around the organization: its owner team is reconciled and
\* has one member, a GithubTeam resource for the team of the Forge, no
\* GithubTeamRepository
HealthyOrgEnv ==
    [namesProvided |-> TRUE, githubExists |-> TRUE, clientRegistered |-> TRUE,
     teams |-> [t \in {"owners"} |->
                  [exists |-> TRUE, teamStatus |-> "complete",
                   members |-> <<Member("I1", "u1")>>]],
     k8sTeams |-> <<"tA">>,
     exceptions |-> <<>>]

NoOrgPass ==
    [ran |-> FALSE,
     start |-> [labels |-> OrgNoLabels, spec |-> OrgSpec, status |-> OrgEmptyStatus],
     forge |-> NewOrganization, calls |-> <<>>, writes |-> <<>>,
     delay |-> "none", after |-> 0, err |-> FALSE]

\* one reconcile pass of the GithubOrganization under one of the behaviours
OrgPass(behaviours) ==
    \E b \in behaviours :
        LET Returns(c) ==
                /\ Len(c.store.status.operations.owner) <= MaxOps
                /\ Len(c.store.status.operations.team) <= MaxOps
                /\ Len(c.store.status.operations.repo) <= MaxRepoOps
                /\ org' = c.store
                /\ orgForge' = c.fg
                /\ lastOrg' = [ran |-> TRUE, start |-> org, forge |-> orgForge,
                               calls |-> c.calls, writes |-> c.writes,
                               delay |-> c.delay, after |-> c.after, err |-> c.err]
                /\ UNCHANGED <<team, forge, env, desired, now, last, orgEnv>>
        IN Returns(OrgReconcile(org, orgForge,
                       [fault |-> b.fault, failFrom |-> b.failFrom,
                        until |-> now + b.window, now |-> now, env |-> orgEnv]))

\* one reconcile pass of the GithubTeam under one of the behaviours
TeamPass(behaviours) ==
    \E b \in behaviours :
        LET Returns(c) ==
                /\ Len(c.store.status.operations) <= MaxOps
                /\ team' = c.store
                /\ forge' = c.fg
                /\ last' = [ran |-> TRUE, start |-> team, forge |-> forge,
                            calls |-> c.calls,
                            writes |-> c.writes, delay |-> c.delay,
                            after |-> c.after, err |-> c.err]
                /\ UNCHANGED <<env, desired, now, orgVars, lastOrg>>
        IN Returns(Reconcile(team, forge,
                       [fault |-> b.fault, failFrom |-> b.failFrom,
                        until |-> now + b.window, now |-> now, env |-> env,
                        desired |-> InOrder(desired, ProviderIDs)]))

\* the clock advances
Tick ==
    /\ now < MaxTime
    /\ now' = now + 1
    /\ last' = NoPass
    /\ lastOrg' = NoOrgPass
    /\ UNCHANGED <<team, forge, env, desired, orgVars>>

\* the member source returns another set of identifiers
DesiredBecomes(choices) ==
    /\ \E d \in choices : d # desired /\ desired' = d
    /\ last' = NoPass
    /\ lastOrg' = NoOrgPass
    /\ UNCHANGED <<team, forge, env, now, orgVars>>

\* an operator sets or removes a label of the GithubTeam
LabelBecomes(key, values) ==
    /\ \E v \in values :
          /\ v # team.labels[key]
          /\ team' = [team EXCEPT !.labels[key] = v, !.labels.nil = FALSE]
    /\ last' = NoPass
    /\ lastOrg' = NoOrgPass
    /\ UNCHANGED <<forge, env, desired, now, orgVars>>

\* an operator removes every label of the GithubTeam
LabelsRemoved ==
    /\ ~team.labels.nil
    /\ team' = [team EXCEPT !.labels = NoLabels]
    /\ last' = NoPass
    /\ lastOrg' = NoOrgPass
    /\ UNCHANGED <<forge, env, desired, now, orgVars>>

\* an operator removes every label of the GithubOrganization
OrgLabelsRemoved ==
    /\ ~org.labels.nil
    /\ org' = [org EXCEPT !.labels = OrgNoLabels]
    /\ last' = NoPass
    /\ lastOrg' = NoOrgPass
    /\ UNCHANGED <<team, forge, env, desired, now, orgForge, orgEnv>>

\* an operator edits the member source of the spec
SourceBecomes(values) ==
    /\ \E v \in values : v # team.source /\ team' = [team EXCEPT !.source = v]
    /\ last' = NoPass
    /\ lastOrg' = NoOrgPass
    /\ UNCHANGED <<forge, env, desired, now, orgVars>>

\* an operator sets or removes a label of the GithubOrganization
OrgLabelBecomes(key, values) ==
    /\ \E v \in values :
          /\ v # org.labels[key]
          /\ org' = [org EXCEPT !.labels[key] = v, !.labels.nil = FALSE]
    /\ last' = NoPass
    /\ lastOrg' = NoOrgPass
    /\ UNCHANGED <<team, forge, env, desired, now, orgForge, orgEnv>>

\* the GithubTeam of the organization owners gets another status
OwnerTeamBecomes(values) ==
    /\ \E v \in values :
          /\ v # orgEnv.teams["owners"]
          /\ orgEnv' = [orgEnv EXCEPT !.teams["owners"] = v]
    /\ last' = NoPass
    /\ lastOrg' = NoOrgPass
    /\ UNCHANGED <<team, forge, env, desired, now, org, orgForge>>

\* a forge organization with one private repository whose team has another
\* permission than the default of the spec
OrgWithRepository ==
    [NewOrganization EXCEPT
        !.privateRepos = <<[Name |-> "r1",
                            Teams |-> <<[Team |-> "tA", Permission |-> "pull"]>>]>>]

\* a status stored with the full repository lists
StatusWithLists ==
    [OrgEmptyStatus EXCEPT !.privateRepos = OrgWithRepository.privateRepos]

\* a new GithubTeam, and a GithubOrganization with the given labels and
\* status on the given Forge, its owner team in the given state
InitOrgWith(labels, status, fg, owners) ==
    /\ team = [labels |-> NoLabels, source |-> "greenhouse", status |-> EmptyStatus]
    /\ forge = [teamExists |-> FALSE, members |-> {}]
    /\ env = HealthyEnv
    /\ desired = {}
    /\ now = 1
    /\ last = NoPass
    /\ org = [labels |-> labels, spec |-> OrgSpec, status |-> status]
    /\ orgForge = fg
    /\ orgEnv = [HealthyOrgEnv EXCEPT !.teams["owners"] = owners]
    /\ lastOrg = NoOrgPass

\* a new GithubTeam with the given labels, the forge team not yet created
InitWith(labels) ==
    /\ team = [labels |-> labels, source |-> "greenhouse", status |-> EmptyStatus]
    /\ forge = [teamExists |-> FALSE, members |-> {}]
    /\ env = HealthyEnv
    /\ desired = {}
    /\ now = 1
    /\ last = NoPass
    /\ org = [labels |-> OrgNoLabels, spec |-> OrgSpec, status |-> OrgEmptyStatus]
    /\ orgForge = NewOrganization
    /\ orgEnv = HealthyOrgEnv
    /\ lastOrg = NoOrgPass

\* ---- operations executed against a failing Forge
Init == InitWith(NoLabels)

TeamReconcile == TeamPass(NoFault \cup Failing({"http500", "network"}, {0}))

SetDesired == DesiredBecomes(SUBSET {"I1", "ghost"})

Next == TeamReconcile \/ SetDesired

Spec == Init /\ [][Next]_vars

\* C1: in every persisted GithubTeam status, teamStatus = complete implies
\* that no operation of the queue is pending and none is failed
Settled(status) ==
    status.teamStatus = "complete" =>
        /\ ~PendingOperationsFound(status.operations)
        /\ ~FailedOperationsFound(status.operations)

C1_CompleteMeansSettled ==
    /\ Settled(team.status)
    /\ \A i \in 1..Len(last.writes) : Settled(last.writes[i])

\* ---- the pending operations a pass executed, and their Forge calls
\* the operation at index i was pending when the pass started and the pass
\* has written a state for it
Processed(i) ==
    /\ last.ran
    /\ i \in 1..Len(last.start.status.operations)
    /\ i \in 1..Len(team.status.operations)
    /\ last.start.status.teamStatus = "pending"
    /\ last.start.status.operations[i].State = "pending"
    /\ team.status.operations[i].State # "pending"

\* the position, among the calls of the pass, of the call made for the
\* operation at index i: pending operations are executed in queue order, and
\* an operation whose gate is closed makes no call
CallIndexOf(i) ==
    Cardinality({j \in 1..i :
        /\ last.start.status.operations[j].State = "pending"
        /\ ~GateClosed(last.start.labels, last.start.status.operations[j].Operation)})

\* the Forge's answer to the call made for the operation at index i
AnswerFor(i) ==
    ForgeAnswer(last.calls[CallIndexOf(i)].fault, last.start.status.operations[i].User)

\* C9: a pending add is marked notfound exactly when the Forge answered the
\* add-member call with 404; on any other error it is marked failed and the
\* error is stored in the operation
C9_NotFoundExactlyOn404 ==
    \A i \in 1..Len(team.status.operations) :
        (/\ Processed(i)
         /\ last.start.status.operations[i].Operation = "add"
         /\ ~GateClosed(last.start.labels, "add"))
        => /\ team.status.operations[i].State = "notfound" <=> AnswerFor(i) = "404"
           /\ AnswerFor(i) \notin {"ok", "404"}
                 => /\ team.status.operations[i].State = "failed"
                    /\ team.status.operations[i].Error # ""

\* ---- dry run: the label is set and removed while members change
FaultlessReconcile == TeamPass(NoFault)

SetDesiredMixedCase == DesiredBecomes(SUBSET {"I1", "ghost", "Ghost"})

SetDryRun == LabelBecomes("dryRun", {"", "true"})

NextDryRun == FaultlessReconcile \/ SetDesiredMixedCase \/ SetDryRun

SpecDryRun == Init /\ [][NextDryRun]_vars

\* the pass made a call that changes the Forge
MutatingCallMade == \E i \in 1..Len(last.calls) : last.calls[i].name \in MutatingCalls

\* C2: a pass that starts with the dryRun label "true" issues no
\* forge-mutating call
C2_DryRunNoMutation ==
    (last.ran /\ ~last.start.labels.nil /\ last.start.labels.dryRun = "true")
        => ~MutatingCallMade

\* C6 as stated: the queue never holds two pending operations naming the same
\* login (compared case-insensitively)
C6_OnePendingPerLogin ==
    \A i, j \in 1..Len(team.status.operations) :
        (/\ i < j
         /\ team.status.operations[i].State = "pending"
         /\ team.status.operations[j].State = "pending")
        => ~EqualFold(team.status.operations[i].User, team.status.operations[j].User)

\* C6 amended: the queue never holds two pending operations naming the same
\* login (compared case-insensitively) and having the same operation kind
C6_OnePendingPerLoginAndKind ==
    \A i, j \in 1..Len(team.status.operations) :
        (/\ i < j
         /\ team.status.operations[i].State = "pending"
         /\ team.status.operations[j].State = "pending"
         /\ team.status.operations[i].Operation = team.status.operations[j].Operation)
        => ~EqualFold(team.status.operations[i].User, team.status.operations[j].User)

\* a status check ran over a queue that already held a pending add for a
\* login the source still asks for in another spelling, and queued nothing
C6_Witness ==
    /\ last.ran
    /\ \E k \in 1..Len(last.calls) : last.calls[k].name = "MembersExtended"
    /\ \E i \in 1..Len(last.start.status.operations) :
          /\ last.start.status.operations[i].State = "pending"
          /\ last.start.status.operations[i].Operation = "add"
          /\ \E d \in desired :
                /\ d # last.start.status.operations[i].User
                /\ ~InMembersMap(last.start.status.members, d)
                /\ EqualFold(d, last.start.status.operations[i].User)
    /\ team.status.operations = last.start.status.operations

\* ---- the addUser / removeUser gates
SetDesiredLinked == DesiredBecomes(SUBSET {"I1", "u2"})

SetAddGate == LabelBecomes("addUser", {"", "false"})

SetRemoveGate == LabelBecomes("removeUser", {"", "false"})

NextGate == FaultlessReconcile \/ SetDesiredLinked \/ SetAddGate \/ SetRemoveGate

SpecGate == Init /\ [][NextGate]_vars

\* the label of the gate of an operation kind when the pass started
GateLabel(kind) ==
    IF last.start.labels.nil THEN ""
    ELSE IF kind = "add" THEN last.start.labels.addUser
    ELSE last.start.labels.removeUser

CallName(kind) == IF kind = "add" THEN "AddUser" ELSE "RemoveUser"

\* C8: while the gate label of an operation kind is "false", every pending
\* operation of that kind a pass processes is marked skipped, no Forge call
\* of that kind is issued, and the forge membership is not changed that way
C8_GatedOperationsSkipped ==
    \A kind \in {"add", "remove"} :
        (last.ran /\ GateLabel(kind) = "false")
        => /\ \A i \in 1..Len(team.status.operations) :
                (Processed(i) /\ last.start.status.operations[i].Operation = kind)
                    => team.status.operations[i].State = "skipped"
           /\ \A k \in 1..Len(last.calls) : last.calls[k].name # CallName(kind)
           /\ kind = "add" => forge.members \subseteq last.forge.members
           /\ kind = "remove" => last.forge.members \subseteq forge.members

\* a pass has processed a pending remove of a forge member under
\* removeUser=false, and a pending add under addUser=false
C8_Witness ==
    /\ last.ran
    /\ GateLabel("remove") = "false"
    /\ \E i \in 1..Len(team.status.operations) :
          /\ Processed(i)
          /\ last.start.status.operations[i].Operation = "remove"
          /\ last.start.status.operations[i].User \in last.forge.members

\* ---- a team that loses its member source
SetSource == SourceBecomes({"greenhouse", "none"})

NextOrphan == FaultlessReconcile \/ SetDesiredLinked \/ SetSource

SpecOrphan == Init /\ [][NextOrphan]_vars

\* C7: a pass over a team with neither greenhouseTeam nor
\* externalMemberProvider applies the orphaned label and stops: no Forge
\* call, no operation appended, no pending operation executed
C7_OrphanedStops ==
    (last.ran /\ last.start.source = "none")
        => /\ team.labels.orphaned = "true"
           /\ last.calls = <<>>
           /\ team.status.operations = last.start.status.operations

\* ---- a rate-limiting Forge and a running clock
RateLimitedReconcile ==
    TeamPass(NoFault \cup Failing({"ratelimit"}, 0..MaxWindow)
                     \cup Failing({"invitation"}, {0}))

SetDesiredOne == DesiredBecomes(SUBSET {"I1"})

NextRate == RateLimitedReconcile \/ Tick \/ SetDesiredOne

SpecRate == Init /\ [][NextRate]_vars

\* the pass started from a ratelimited status with a stored error
StartedRateLimited ==
    /\ last.ran
    /\ last.start.status.teamStatus = "ratelimited"
    /\ last.start.status.error.kind # "none"

\* resetAt as derived from the error stored when the pass started
StoredReset == parseGitHubRateLimitReset(last.start.status.error, now)

\* a pass over a ratelimited GithubTeam before its reset waits
TeamWaits ==
    (StartedRateLimited /\ StoredReset.ok /\ StoredReset.at > now)
        => /\ ~MutatingCallMade
           /\ last.delay = "reset"
           /\ last.after = StoredReset.at - now
           /\ ~last.err

\* the first call of the pass that failed with a recognised rate-limit error
RateLimitFaults == {"ratelimit", "invitation"}

FirstRateLimitedCall ==
    CHOOSE k \in 1..Len(last.calls) :
        /\ last.calls[k].fault \in RateLimitFaults
        /\ \A j \in 1..(k - 1) : last.calls[j].fault \notin RateLimitFaults

\* C4: when a Forge call of a pass fails with a recognised rate-limit error,
\* the status becomes ratelimited with the error stored, the pass asks for a
\* requeue after resetAt - now, and makes no further Forge call
C4_RateLimitDetected ==
    (last.ran /\ \E k \in 1..Len(last.calls) : last.calls[k].fault \in RateLimitFaults)
        => LET k == FirstRateLimitedCall
               p == parseGitHubRateLimitReset(team.status.error, now)
           IN /\ team.status.teamStatus = "ratelimited"
              /\ team.status.error.kind = last.calls[k].fault
              /\ last.delay = "reset"
              /\ p.ok /\ (p.at > now => last.after = p.at - now)
              /\ k = Len(last.calls)

\* the back-off of the error stored at the start of the pass has elapsed:
\* the reset timestamp is reached, or one hour has passed since a phrase
\* without timestamp was stored
BackOffElapsed ==
    \/ /\ last.start.status.error.kind = "ratelimit"
       /\ now >= last.start.status.error.until
    \/ /\ last.start.status.error.kind = "invitation"
       /\ now >= last.start.status.timestamp + OneHour

\* C5: a pass over a ratelimited GithubTeam that runs after the back-off has
\* elapsed clears the error and sets the status to pending, failed or
\* complete according to the residual queue
C5_RateLimitedLeaves ==
    (StartedRateLimited /\ BackOffElapsed)
        => /\ last.writes # <<>>
           /\ last.writes[1].error = NoError
           /\ last.writes[1].teamStatus = RecomputeStatus(last.start.status.operations)

\* ---- a team and an organization against a rate-limiting Forge
\* the Forge rate-limits every call of a pass: with a reset time in the
\* future, or with the phrase that carries no time
Limiting ==
    [fault : {"ratelimit"}, failFrom : {1}, window : 1..MaxWindow]
        \cup [fault : {"invitation"}, failFrom : {1}, window : {0}]

RateLimitedTeamPass == TeamPass(NoFault \cup Limiting)

RateLimitedOrgPass == OrgPass(NoFault \cup Limiting)

NextRateLimited == RateLimitedTeamPass \/ RateLimitedOrgPass \/ Tick

SpecRateLimited == Init /\ [][NextRateLimited]_vars

\* the organization pass started from a ratelimited status with a stored
\* error
OrgStartedRateLimited ==
    /\ lastOrg.ran
    /\ lastOrg.start.status.orgStatus = "ratelimited"
    /\ lastOrg.start.status.error.kind # "none"

OrgStoredReset == parseGitHubRateLimitReset(lastOrg.start.status.error, now)

OrgMutatingCallMade ==
    \E i \in 1..Len(lastOrg.calls) : lastOrg.calls[i].name \in OrgMutatingCalls

\* a pass over a ratelimited GithubOrganization before its reset waits
OrgWaits ==
    (OrgStartedRateLimited /\ OrgStoredReset.ok /\ OrgStoredReset.at > now)
        => /\ ~OrgMutatingCallMade
           /\ lastOrg.delay = "reset"
           /\ lastOrg.after = OrgStoredReset.at - now
           /\ ~lastOrg.err

\* C3: a pass over a ratelimited GithubTeam or GithubOrganization whose
\* reset time, derived from the stored error, lies in the future issues no
\* mutating Forge call and returns requeueAfter = resetAt - now
C3_RateLimitedWaits == TeamWaits /\ OrgWaits

\* a ratelimited team and a ratelimited organization were each reconciled
\* before their reset and told to come back at the reset
C3_Witness ==
    /\ StartedRateLimited
    /\ StoredReset.at > now
    /\ last.after > 0
    /\ OrgStartedRateLimited
    /\ OrgStoredReset.at > now
    /\ lastOrg.after > 0

\* ---- unknown logins and the notfound TTL
SetDesiredUnknown == DesiredBecomes(SUBSET {"ghost", "Ghost"})

SetNotFoundTTL == LabelBecomes("notfoundTTL", {-1, OneHour})

NextTTL == FaultlessReconcile \/ Tick \/ SetDesiredUnknown \/ SetNotFoundTTL

SpecTTL == Init /\ [][NextTTL]_vars

\* the operations the pass appended to the queue it started from
AppendedByPass ==
    {j \in 1..Len(team.status.operations) : j > Len(last.start.status.operations)}

\* the operation at index i of the starting queue is an add that ended
\* notfound, and the pass has left it in the queue
NotFoundKept(i) ==
    /\ last.ran
    /\ i \in 1..Len(last.start.status.operations)
    /\ last.start.status.operations[i].Operation = "add"
    /\ last.start.status.operations[i].State = "notfound"
    /\ Len(team.status.operations) >= Len(last.start.status.operations)

\* C10: while an add operation that ended notfound is in the queue, no pass
\* appends a new add operation for that login
C10_NotFoundNotRequeued ==
    \A i \in 1..Len(last.start.status.operations) :
        NotFoundKept(i)
        => \A j \in AppendedByPass :
              ~(/\ team.status.operations[j].Operation = "add"
                /\ EqualFold(team.status.operations[j].User,
                             last.start.status.operations[i].User))

\* a status check ran while the member source asked for a login that is
\* not a member and whose add had ended notfound
C10_Witness ==
    /\ \E k \in 1..Len(last.calls) : last.calls[k].name = "MembersExtended"
    /\ \E i \in 1..Len(last.start.status.operations) :
          /\ NotFoundKept(i)
          /\ \E d \in desired :
                /\ EqualFold(d, last.start.status.operations[i].User)
                /\ ~InMembersMap(last.start.status.members, d)

\* ---- the organization against its Forge: owners, teams and repositories
\* a reconciled GithubTeam of the organization owners with the given members
OwnersReady(members) ==
    [members |-> members, teamStatus |-> "complete", exists |-> TRUE]

InitOrg ==
    \E status \in {OrgEmptyStatus, StatusWithLists} :
        InitOrgWith(OrgNoLabels, status, OrgWithRepository,
                    OwnersReady(<<Member("I1", "u1")>>))

OrgReconcilePass == OrgPass(NoFault \cup Failing({"http500"}, {0}))

SetAddOwnerGate == OrgLabelBecomes("addOrganizationOwner", {"true", "false"})

SetRemoveOwnerGate == OrgLabelBecomes("removeOrganizationOwner", {"true", "false"})

OwnersChange ==
    OwnerTeamBecomes({OwnersReady(<<>>), OwnersReady(<<Member("I1", "u1")>>)})

NextOrg ==
    OrgReconcilePass \/ SetAddOwnerGate \/ SetRemoveOwnerGate \/ OwnersChange

SpecOrg == InitOrg /\ [][NextOrg]_vars

\* the gate label of the class of operations a mutating Forge call executes
OrgGateLabel(name) ==
    CASE name = "ChangeToOwner" -> "addOrganizationOwner"
      [] name = "ChangeToMember" -> "removeOrganizationOwner"
      [] name = "AddTeam" -> "addTeam"
      [] name = "RemoveTeam" -> "removeTeam"
      [] name = "RepositoryTeamAdd" -> "addRepositoryTeam"
      [] OTHER -> "removeRepositoryTeam"

\* the call that executes an operation of a queue
OrgCallName(queue, kind) ==
    CASE queue = "owner" -> IF kind = "add" THEN "ChangeToOwner" ELSE "ChangeToMember"
      [] queue = "team" -> IF kind = "add" THEN "AddTeam" ELSE "RemoveTeam"
      [] OTHER -> IF kind = "add" THEN "RepositoryTeamAdd" ELSE "RepositoryTeamRemove"

ExplicitlyEnabled(labels, key) == ~labels.nil /\ labels[key] = "true"

\* C11: an organization pass issues a mutating Forge call only for a class
\* of operations whose gate label is explicitly "true" (not absent, not
\* another value, not a resource without labels), and every pending
\* operation the pass has processed under a gate that is not "true" is
\* skipped
C11_ExecutedOnlyIfExplicitlyTrue ==
    lastOrg.ran =>
        /\ \A k \in 1..Len(lastOrg.calls) :
              lastOrg.calls[k].name \in OrgMutatingCalls =>
                  ExplicitlyEnabled(lastOrg.start.labels,
                                    OrgGateLabel(lastOrg.calls[k].name))
        /\ \A q \in {"owner", "team", "repo"} :
              Len(org.status.operations[q]) = Len(lastOrg.start.status.operations[q]) =>
                  \A i \in 1..Len(org.status.operations[q]) :
                      LET before == lastOrg.start.status.operations[q][i]
                          after == org.status.operations[q][i]
                          key == OrgGateLabel(OrgCallName(q, before.Operation))
                      IN /\ before.State = "pending"
                         /\ after.State # "pending"
                         /\ ~ExplicitlyEnabled(lastOrg.start.labels, key)
                         => after.State = "skipped"

\* ---- the last admin of the organization
\* labels that carry the two owner gates
OwnerGates(add, remove) ==
    [OrgNoLabels EXCEPT !.nil = FALSE, !.addOrganizationOwner = add,
                        !.removeOrganizationOwner = remove]

\* a new organization whose only owner on the Forge is u2, its owner team
\* without members or with u1, under each setting of the owner gates
InitLastAdmin ==
    \E members \in {<<>>, <<Member("I1", "u1")>>} :
        \E labels \in {OrgNoLabels}
                      \cup {OwnerGates(a, r) : a \in {"", "true"}, r \in {"", "true"}} :
            InitOrgWith(labels, OrgEmptyStatus, NewOrganization, OwnersReady(members))

FaultlessOrgPass == OrgPass(NoFault)

NextLastAdmin == FaultlessOrgPass \/ Tick

SpecLastAdmin == InitLastAdmin /\ [][NextLastAdmin]_vars

\* the pass that has just returned left the Store and the Forge as it found
\* them: every later pass does the same
PassChangedNothing ==
    /\ lastOrg.ran
    /\ ~lastOrg.err
    /\ lastOrg.start = org
    /\ lastOrg.forge = orgForge

\* the owner queue holds a remove operation skipped with the Forge's error,
\* and orgStatus is complete
LastAdminSkipped ==
    /\ \E i \in 1..Len(org.status.operations.owner) :
          /\ org.status.operations.owner[i].Operation = "remove"
          /\ org.status.operations.owner[i].State = "skipped"
          /\ IsLastAdmin(org.status.operations.owner[i].Error)
    /\ org.status.orgStatus = "complete"

GatedAddScenario ==
    /\ orgEnv.teams["owners"].members = <<Member("I1", "u1")>>
    /\ ExplicitlyEnabled(org.labels, "removeOrganizationOwner")
    /\ ~ExplicitlyEnabled(org.labels, "addOrganizationOwner")

OwnersUnionEmpty ==
    \A i \in 1..Len(org.spec.organizationOwnerTeams) :
        LET t == orgEnv.teams[org.spec.organizationOwnerTeams[i]]
        IN t.exists /\ t.teamStatus \in {"complete", "dry-run"} /\ t.members = <<>>

\* the pass has read owners, teams and repositories from the Forge
StatusCheckReads ==
    /\ Len(lastOrg.calls) >= 3
    /\ lastOrg.calls[1].name = "OwnersExtended"
    /\ \A k \in 1..3 : lastOrg.calls[k].fault = "none"

\* the status the pass started from lists the owners and teams of the Forge
ObservedUpToDate ==
    LET st == lastOrg.start.status
    IN /\ Len(st.publicRepos) = 0 /\ Len(st.privateRepos) = 0
       /\ elementsMatch(st.owners, extendGithubMembersWithGreenhouseIDs(
                                       InOrder(lastOrg.forge.owners, ForgeLogins)))
       /\ elementsMatch(st.teams, InOrder(lastOrg.forge.teams, ForgeTeams))

\* the pass has compared the owners: the reads succeeded, the observed
\* lists needed no update and the owner gates are not both "false"
OwnerDiffReached ==
    /\ StatusCheckReads
    /\ ObservedUpToDate
    /\ ~BothFalse(lastOrg.start.labels, "addOrganizationOwner", "removeOrganizationOwner")

\* C13: when the owner teams of a GithubOrganization are reconciled and the
\* union of their status.members is empty, a pass appends no owner
\* operation, and a pass that comes to compare the owners requests a
\* requeue after 5 seconds
C13_EmptyOwnersNotReady ==
    lastOrg.ran /\ OwnersUnionEmpty =>
        /\ \A w \in 1..Len(lastOrg.writes) :
              Len(lastOrg.writes[w].operations.owner)
                  <= Len(lastOrg.start.status.operations.owner)
        /\ Len(org.status.operations.owner)
              <= Len(lastOrg.start.status.operations.owner)
        /\ OwnerDiffReached => lastOrg.delay = "5s" /\ ~lastOrg.err

\* a pass compared the owners while the Forge had an owner, the owner
\* teams had no member and no removal was queued yet
C13_Witness ==
    /\ lastOrg.ran
    /\ OwnersUnionEmpty
    /\ OwnerDiffReached
    /\ lastOrg.start.status.owners # <<>>
    /\ lastOrg.start.status.operations.owner = <<>>
    /\ lastOrg.delay = "5s"

\* the owners the owner teams ask for, when every team is reconciled
DesiredOwners ==
    ownersFromGithubTeams(org.spec.organizationOwnerTeams, orgEnv.teams)

\* the queue holds a pending operation of the kind for the login
PendingOwnerOperation(ops, login, kind) ==
    \E i \in 1..Len(ops) :
        /\ EqualFold(ops[i].User, login)
        /\ ops[i].Operation = kind
        /\ ops[i].State = "pending"

\* the pass has appended a pending operation of the kind for the login
AppendedOwnerOperation(login, kind) ==
    \E i \in (Len(lastOrg.start.status.operations.owner) + 1)
                ..Len(org.status.operations.owner) :
        /\ org.status.operations.owner[i].User = login
        /\ org.status.operations.owner[i].Operation = kind
        /\ org.status.operations.owner[i].State = "pending"

\* C14: a pass that compares the owners appends a pending add for every
\* desired owner missing on the Forge, and a pending remove for every
\* owner on the Forge that is not desired, unless the owner queue already
\* holds a pending operation of that kind for the login (compared
\* case-insensitively); operations in a terminal state (complete, failed,
\* skipped) do not suppress the new operation
C14_OnlyPendingSuppresses ==
    /\ lastOrg.ran
    /\ OwnerDiffReached
    /\ ~DesiredOwners.retryLater /\ ~DesiredOwners.err
    /\ DesiredOwners.owners # <<>>
    => LET before == lastOrg.start.status
           wanted == DesiredOwners.owners
       IN /\ \A i \in 1..Len(wanted) :
                 /\ ~InMembersMap(before.owners, wanted[i].GithubUsername)
                 /\ ~PendingOwnerOperation(before.operations.owner,
                                           wanted[i].GithubUsername, "add")
                 => AppendedOwnerOperation(wanted[i].GithubUsername, "add")
          /\ \A i \in 1..Len(before.owners) :
                 /\ ~InMembersMap(wanted, before.owners[i].GithubUsername)
                 /\ ~PendingOwnerOperation(before.operations.owner,
                                           before.owners[i].GithubUsername, "remove")
                 => AppendedOwnerOperation(before.owners[i].GithubUsername, "remove")

\* the teams the spec configures for a repository of the given visibility
EffectiveConfig(repo, private) ==
    ConfigExtendedWithExceptions(
        IF private THEN lastOrg.start.spec.defaultPrivateRepositoryTeams
        ELSE lastOrg.start.spec.defaultPublicRepositoryTeams,
        repo, orgEnv.exceptions, lastOrg.start.spec.skipList)

\* the operations for a repository and team in a queue, in order
PairOperations(ops, repo, name) ==
    SelectSeq(ops, LAMBDA o : o.Repo = repo /\ EqualFold(o.Team, name))

\* the operations the pass has appended to the repository-team queue
AppendedRepoOperations ==
    SubSeq(org.status.operations.repo,
           Len(lastOrg.start.status.operations.repo) + 1,
           Len(org.status.operations.repo))

\* the pass has compared the repositories: the owner and team comparisons
\* found nothing and it wrote the operations of the repository comparison
RepoDiffWritten ==
    /\ lastOrg.ran
    /\ OwnerDiffReached
    /\ ~BothFalse(lastOrg.start.labels, "addRepositoryTeam", "removeRepositoryTeam")
    /\ org.status.operations.owner = lastOrg.start.status.operations.owner
    /\ org.status.operations.team = lastOrg.start.status.operations.team
    /\ Len(AppendedRepoOperations) > 0

\* the (repository, team) pair was observed with another permission than
\* configured and had no operation that is not terminal
MismatchWithoutOperation(repo, j, config, k) ==
    /\ repo.Teams[j].Team = config[k].Team
    /\ repo.Teams[j].Permission # config[k].Permission
    /\ \A o \in Range(PairOperations(lastOrg.start.status.operations.repo,
                                     repo.Name, repo.Teams[j].Team)) :
          o.State # "pending"

\* C15: a pass that writes the repository comparison appends, for each
\* observed (repository, team) pair whose permission differs from the
\* configured one and that had no pending operation, exactly one remove
\* operation followed by exactly one add operation with the configured
\* permission
C15_OneRemoveThenOneAdd ==
    RepoDiffWritten =>
        \A private \in BOOLEAN :
            LET repos == IF private THEN lastOrg.forge.privateRepos
                         ELSE lastOrg.forge.publicRepos
            IN \A r \in 1..Len(repos) :
                   LET config == EffectiveConfig(repos[r], private)
                   IN \A j \in 1..Len(repos[r].Teams) : \A k \in 1..Len(config) :
                          MismatchWithoutOperation(repos[r], j, config, k) =>
                              PairOperations(AppendedRepoOperations, repos[r].Name,
                                             repos[r].Teams[j].Team)
                                  = <<RepoOp("remove", repos[r].Name,
                                             repos[r].Teams[j].Team, ""),
                                      RepoOp("add", repos[r].Name, config[k].Team,
                                             config[k].Permission)>>

\* a status without the full repository lists
Compact(status) == Len(status.publicRepos) = 0 /\ Len(status.privateRepos) = 0

\* C16: a pass that starts from a status without repository lists writes
\* no status with repository lists, although the repository comparison
\* works on a copy that carries the lists of the Forge; and a pass that
\* starts from a status with lists and completes the reads of its status
\* check leaves a status without lists in the Store
C16_RepositoryListsNotPersisted ==
    lastOrg.ran =>
        /\ Compact(lastOrg.start.status) =>
              /\ \A w \in 1..Len(lastOrg.writes) : Compact(lastOrg.writes[w])
              /\ Compact(org.status)
        /\ ~Compact(lastOrg.start.status) /\ StatusCheckReads /\ ~lastOrg.err
              => Compact(org.status)

\* the repository comparison wrote operations for the repositories it had
\* fetched
C16_Witness ==
    /\ RepoDiffWritten
    /\ Compact(lastOrg.start.status)
    /\ Len(lastOrg.forge.privateRepos) > 0
    /\ Compact(org.status)

\* a status check cleared the lists it found in the Store
ListsCleared ==
    /\ lastOrg.ran
    /\ ~Compact(lastOrg.start.status)
    /\ StatusCheckReads
    /\ Compact(org.status)

\* C17: every GithubOrganization status a pass writes lists in
\* outOfPolicyRepositories exactly the repository names that have a
\* repository-team operation in state pending or failed in that status
C17_OutOfPolicyMatchesQueue ==
    lastOrg.ran =>
        \A w \in 1..Len(lastOrg.writes) :
            lastOrg.writes[w].outOfPolicy
                = uniquePendingOrFailedRepoNames(lastOrg.writes[w].operations.repo)

\* ---- TTL cleanups applied to stored statuses
\* the TTL label that cleans the operations in a state
TTLLabel(state) ==
    CASE state = "failed" -> "failedTTL"
      [] state = "complete" -> "completedTTL"
      [] state = "notfound" -> "notfoundTTL"
      [] OTHER -> "skippedTTL"

\* queues of up to two operations for one login, in any states
StoredQueues(kind, login, states) ==
    {<<>>} \cup {<<Op(kind, login, a, "")>> : a \in states}
           \cup {<<Op(kind, login, a, ""), Op(kind, login, b, "")>> :
                    a \in states, b \in states}

\* a GithubTeam stored with operations, under one TTL label of one hour
StoredTeams ==
    {[labels |-> [NoLabels EXCEPT !.nil = FALSE, ![TTLLabel(state)] = OneHour],
      source |-> "greenhouse",
      status |-> [EmptyStatus EXCEPT !.teamStatus = st, !.error = e,
                                     !.timestamp = 1, !.operations = q]] :
        state \in {"failed", "complete", "notfound", "skipped"},
        st \in {"pending", "failed", "complete"},
        e \in {NoError, Err("http500")},
        q \in StoredQueues("add", "u1",
                           {"pending", "complete", "failed", "notfound", "skipped"})}

\* a GithubOrganization stored with owner operations, under one TTL label
StoredOrganizations ==
    {[labels |-> [OrgNoLabels EXCEPT !.nil = FALSE, ![TTLLabel(state)] = OneHour],
      spec |-> OrgSpec,
      status |-> [OrgEmptyStatus EXCEPT !.orgStatus = st, !.error = e,
                                        !.timestamp = 1, !.operations.owner = q]] :
        state \in {"failed", "complete"},
        st \in {"pending", "failed", "complete"},
        e \in {NoError, Err("http500")},
        q \in StoredQueues("remove", "u2", {"pending", "complete", "failed", "skipped"})}

NewTeam == [labels |-> NoLabels, source |-> "greenhouse", status |-> EmptyStatus]

NewOrg == [labels |-> OrgNoLabels, spec |-> OrgSpec, status |-> OrgEmptyStatus]

\* a stored team beside a new organization, or a stored organization
\* beside a new team
InitCleanup ==
    /\ \/ team \in StoredTeams /\ org = NewOrg
       \/ team = NewTeam /\ org \in StoredOrganizations
    /\ forge = [teamExists |-> FALSE, members |-> {}]
    /\ env = HealthyEnv
    /\ desired = {}
    /\ now = 1
    /\ last = NoPass
    /\ orgForge = NewOrganization
    /\ orgEnv = HealthyOrgEnv
    /\ lastOrg = NoOrgPass

NextCleanup == FaultlessReconcile \/ FaultlessOrgPass \/ Tick

SpecCleanup == InitCleanup /\ [][NextCleanup]_vars

\* the stored team after the TTL block for the state, and after running
\* the block again at the same clock
TeamCleanedOnce(state) ==
    TTLCleanup(StartPass(team, forge), [now |-> now],
               team.labels[TTLLabel(state)], state)

TeamCleanedTwice(state) ==
    TTLCleanup(StartPass(TeamCleanedOnce(state).store, forge), [now |-> now],
               team.labels[TTLLabel(state)], state)

OrgCleanedOnce(state) ==
    OrgTTLCleanup(StartPass(org, orgForge), [now |-> now],
                  org.labels[TTLLabel(state)], state)

OrgCleanedTwice(state) ==
    OrgTTLCleanup(StartPass(OrgCleanedOnce(state).store, orgForge), [now |-> now],
                  org.labels[TTLLabel(state)], state)

\* C18: for a GithubTeam or GithubOrganization and a fixed clock, running a
\* TTL cleanup (failedTTL, completedTTL, notfoundTTL, skippedTTL) again on
\* the status the first run produced writes nothing and leaves operations,
\* error and top-level status as the first run left them
C18_CleanupIdempotent ==
    /\ \A state \in {"failed", "complete", "notfound", "skipped"} :
          /\ TeamCleanedTwice(state).writes = <<>>
          /\ TeamCleanedTwice(state).store.status = TeamCleanedOnce(state).store.status
    /\ \A state \in {"failed", "complete"} :
          /\ OrgCleanedTwice(state).writes = <<>>
          /\ OrgCleanedTwice(state).store.status = OrgCleanedOnce(state).store.status

\* a pass has just cleaned operations out of the queue of the team
C18_Witness ==
    /\ last.ran
    /\ last.calls = <<>>
    /\ Len(last.writes) = 1
    /\ \E state \in {"failed", "complete", "notfound", "skipped"} :
          /\ last.start.labels[TTLLabel(state)] >= 0
          /\ team.status.operations = RemoveState(last.start.status.operations, state)
          /\ Len(team.status.operations) < Len(last.start.status.operations)

\* ---- the change calculators invoked at different times
InitCalc ==
    InitOrgWith(OrgNoLabels, OrgEmptyStatus, OrgWithRepository,
                OwnersReady(<<Member("I1", "u1")>>))

NextCalc ==
    FaultlessReconcile \/ SetDesiredOne \/ FaultlessOrgPass \/ OwnersChange \/ Tick

SpecCalc == InitCalc /\ [][NextCalc]_vars

\* desired states the calculators are invoked with
DesiredMemberLists == {<<>>, <<Member("I1", "u1")>>, <<Member("I2", "u2")>>}

DesiredTeamLists == {<<>>, <<"tA">>, <<"tB">>}

\* the stored organization status carrying the repositories of the Forge
StatusWithFetchedRepos ==
    [org.status EXCEPT !.privateRepos = orgForge.privateRepos,
                       !.publicRepos = orgForge.publicRepos]

\* what the four calculators return when invoked at a time
CalculatorResults(n) ==
    [members |-> [d \in DesiredMemberLists |-> ChangeCalculator(team.status, d, n)],
     owners |-> [d \in DesiredMemberLists |-> OwnerChangeCalculator(org.status, d, n)],
     teams |-> [d \in DesiredTeamLists |-> TeamChangeCalculator(org.status, d, n)],
     repos |-> RepoChangeCalculator(org.spec, StatusWithFetchedRepos,
                                    orgEnv.exceptions, n)]

\* a result without the time it stamped on the status
Unstamped(r) ==
    [changed |-> r.changed, status |-> [r.status EXCEPT !.timestamp = ZeroTime]]

ResultsButTimestamp(n) ==
    LET r == CalculatorResults(n)
    IN [members |-> [d \in DesiredMemberLists |-> Unstamped(r.members[d])],
        owners |-> [d \in DesiredMemberLists |-> Unstamped(r.owners[d])],
        teams |-> [d \in DesiredTeamLists |-> Unstamped(r.teams[d])],
        repos |-> Unstamped(r.repos)]

InitTeamTTL ==
    \E state \in {"failed", "complete", "notfound", "skipped"} :
        InitWith([NoLabels EXCEPT !.nil = FALSE,
                                  ![TTLLabel(state)] = OneHour,
                                  !.addUser = IF state = "skipped" THEN "false" ELSE @])

FailingReconcile == TeamPass(NoFault \cup Failing({"http500"}, {0}))

NextTeamTTL == FailingReconcile \/ SetDesired \/ Tick

SpecTeamTTL == InitTeamTTL /\ [][NextTeamTTL]_vars

\* the pass started with the TTL label of the state set and expired, and
\* with an operation in that state in the queue
CleanupDue(state) ==
    LET st == last.start.status
    IN /\ ~last.start.labels.nil
       /\ st.timestamp # ZeroTime
       /\ ttlExpired(last.start.labels[TTLLabel(state)], st.timestamp, now)
       /\ \E i \in 1..Len(st.operations) : st.operations[i].State = state

\* the pass removed the operations in the state, recomputed the status,
\* wrote once and returned
CleanedUp(state) ==
    LET residual == RemoveState(last.start.status.operations, state)
    IN /\ team.status.operations = residual
       /\ team.status.teamStatus = RecomputeStatus(residual)
       /\ state = "failed" => team.status.error = NoError
       /\ Len(last.writes) = 1
       /\ last.calls = <<>>
       /\ ~last.err

\* C20: for each TTL label set on a GithubTeam, once the status timestamp
\* is older than now - TTL, a reconcile removes every operation in the
\* matching state, clears the error for failedTTL, sets teamStatus to
\* pending, failed or complete from the residual queue, writes the status
\* and returns
C20_ExpiredOperationsRemoved ==
    last.ran =>
        \A state \in {"failed", "complete", "notfound", "skipped"} :
            CleanupDue(state) => CleanedUp(state)

\* the same for the three labels other than failedTTL
C20_OtherThanFailedRemoved ==
    last.ran =>
        \A state \in {"complete", "notfound", "skipped"} :
            CleanupDue(state) => CleanedUp(state)

\* ---- internal usernames kept out of a team
SetDesiredSameName == DesiredBecomes(SUBSET {"I1", "u3"})

SetDisableInternalUsernames == LabelBecomes("disableInternalUsernames", {"", "true"})

NextInternal ==
    FaultlessReconcile \/ SetDesiredSameName \/ SetDisableInternalUsernames
        \/ SetRemoveGate

SpecInternal == Init /\ [][NextInternal]_vars

\* a GithubAccountLink exists for the member
HasAccountLink(m) ==
    HasLinkForID(m.GreenhouseID) \/ HasLinkForUID(UIDOf(m.GithubUsername))

\* the members with an AccountLink whose internal id is their forge login
InternalNamesIn(members) ==
    {i \in 1..Len(members) :
        /\ HasAccountLink(members[i])
        /\ members[i].GreenhouseID = members[i].GithubUsername}

\* C21: if the GithubTeam carries disableInternalUsernames="true", every
\* status a pass writes to the Store has, for each status.members entry
\* with an AccountLink, a GreenhouseID different from the GithubUsername
C21_LinkedMembersNotInternal ==
    (last.ran /\ ~last.start.labels.nil
              /\ last.start.labels.disableInternalUsernames = "true") =>
        \A i \in 1..Len(last.writes) : InternalNamesIn(last.writes[i].members) = {}

\* ---- members filtered by a verified email domain
SetDesiredAny == DesiredBecomes(SUBSET {"I1", "u2"})

SetRequiredDomain == LabelBecomes("requiredDomain", {"", "d1", "d2"})

\* the email check of the AccountLink of I1 for the organization of the
\* team gets another result
EmailCheckBecomes ==
    /\ \E r \in [domain : {"d1", "d2"}, verified : BOOLEAN] \cup {NoEmailCheck} :
          /\ r # env.emailChecks["I1"]
          /\ env' = [env EXCEPT !.emailChecks["I1"] = r]
    /\ last' = NoPass
    /\ lastOrg' = NoOrgPass
    /\ UNCHANGED <<team, forge, desired, now, orgVars>>

NextDomain ==
    FaultlessReconcile \/ SetDesiredAny \/ SetRequiredDomain \/ EmailCheckBecomes

SpecDomain == Init /\ [][NextDomain]_vars

\* the desired member list a pass computes from the current member source
DesiredMemberList ==
    extendGreenhouseMembersWithGithubUsernames(
        StartPass(team, forge), InOrder(desired, ProviderIDs), <<>>,
        team.labels.requiredDomain,
        [fault |-> "none", failFrom |-> 1, until |-> now, now |-> now,
         env |-> env, desired |-> InOrder(desired, ProviderIDs)]).out

\* the AccountLink of the internal id has an entry for the organization
\* with the domain, verified
VerifiedFor(id, domain) ==
    /\ HasLinkForID(id)
    /\ env.emailChecks[id] = [domain |-> domain, verified |-> TRUE]

\* the pass has just written the desired member list with its diff
DiffWritten ==
    /\ last.ran
    /\ last.writes # <<>>
    /\ Len(team.status.operations) > Len(last.start.status.operations)

StatusEdges ==
    {<<"", "complete">>, <<"complete", "pending">>, <<"pending", "complete">>,
     <<"pending", "failed">>, <<"pending", "ratelimited">>, <<"pending", "dry-run">>,
     <<"ratelimited", "pending">>, <<"ratelimited", "complete">>,
     <<"ratelimited", "failed">>}

\* teamStatus as the pass found it, followed by teamStatus of each status
\* the pass wrote
PersistedStatuses ==
    <<last.start.status.teamStatus>> \o
        [i \in 1..Len(last.writes) |-> last.writes[i].teamStatus]

\* C23: every change of the persisted teamStatus follows an edge of the
\* state machine: empty to complete, complete to pending, pending to
\* complete, failed, ratelimited or dry-run, ratelimited to pending,
\* complete or failed
C23_StatusFollowsEdges ==
    last.ran =>
        \A i \in 1..Len(last.writes) :
            PersistedStatuses[i] # PersistedStatuses[i + 1] =>
                <<PersistedStatuses[i], PersistedStatuses[i + 1]>> \in StatusEdges

\* ---- leaving dry run
SetOrgDryRun == OrgLabelBecomes("dryRun", {"", "true"})

NextDryRunExit ==
    FaultlessReconcile \/ SetDesiredOne \/ SetDryRun \/ LabelsRemoved
        \/ FaultlessOrgPass \/ SetOrgDryRun \/ OrgLabelsRemoved

SpecDryRunExit == Init /\ [][NextDryRunExit]_vars

\* the pass found the status dry-run and the dryRun label not "true"
TeamLeftDryRunMode ==
    /\ last.ran
    /\ ~last.err
    /\ last.start.status.teamStatus = "dry-run"
    /\ (last.start.labels.nil \/ last.start.labels.dryRun # "true")

OrgLeftDryRunMode ==
    /\ lastOrg.ran
    /\ ~lastOrg.err
    /\ lastOrg.start.status.orgStatus = "dry-run"
    /\ (lastOrg.start.labels.nil \/ lastOrg.start.labels.dryRun # "true")

\* C24: if a GithubTeam or GithubOrganization has status dry-run and its
\* dryRun label is no longer "true" (value changed, label removed, or all
\* labels removed), the next reconcile replaces the dry-run status by
\* pending, failed or complete recomputed from the operations queue
C24_DryRunStatusReplaced ==
    /\ TeamLeftDryRunMode =>
          team.status.teamStatus = RecomputeStatus(team.status.operations)
    /\ OrgLeftDryRunMode =>
          org.status.orgStatus = OrgRecomputeStatus(org.status.operations)

\* ---- the cleanOperations label
SetCleanOperations == OrgLabelBecomes("cleanOperations", {"complete", "failed"})

InitClean ==
    InitOrgWith(OrgNoLabels, OrgEmptyStatus, NewOrganization,
                OwnersReady(<<Member("I1", "u1")>>))

NextClean == OrgReconcilePass \/ SetOrgDryRun \/ SetCleanOperations

SpecClean == InitClean /\ [][NextClean]_vars

\* the pass that has just returned wrote nothing and left the Store and
\* the Forge as it found them
OrgPassQuiet == PassChangedNothing /\ lastOrg.writes = <<>>

CleanLabelSet == ~org.labels.nil /\ org.labels.cleanOperations \in {"complete", "failed"}

\* an operation in the state is left in one of the three queues
LeftInState(ops, state) == CleanOperations(ops, state) # ops

\* the pass removed the cleanOperations label it found
CleanLabelRemovedByPass ==
    /\ lastOrg.ran
    /\ ~lastOrg.start.labels.nil
    /\ lastOrg.start.labels.cleanOperations \in {"complete", "failed"}
    /\ org.labels.cleanOperations = ""

\* C25: when a GithubOrganization carries cleanOperations=complete
\* (failed), the reconciles do not come to rest with the label in place,
\* and the pass that removes the label leaves no operation in state
\* complete (failed) in the owner, team and repository-team queues
C25_CleanLabelPurges ==
    /\ ~(OrgPassQuiet /\ CleanLabelSet)
    /\ CleanLabelRemovedByPass =>
          ~LeftInState(org.status.operations, lastOrg.start.labels.cleanOperations)

\* the pass found and left the organization in dry run, with the
\* cleanOperations label set
CleaningPass ==
    /\ lastOrg.ran
    /\ ~lastOrg.err
    /\ ~lastOrg.start.labels.nil
    /\ lastOrg.start.labels.dryRun = "true"
    /\ lastOrg.start.labels.cleanOperations \in {"complete", "failed"}
    /\ lastOrg.start.status.orgStatus = "dry-run"
    /\ org.status.orgStatus = "dry-run"

\* C25 as amended: when a GithubOrganization in dry run, its status
\* dry-run, carries cleanOperations=complete (failed), a reconcile removes
\* every operation in that state from the three queues, a reconcile that
\* finds none removes the label, and the reconciles do not come to rest
\* with the label in place
C25_CleanLabelPurgesInDryRun ==
    /\ ~(OrgPassQuiet /\ CleanLabelSet /\ org.status.orgStatus = "dry-run")
    /\ CleanLabelRemovedByPass =>
          /\ lastOrg.start.status.orgStatus = "dry-run"
          /\ ~LeftInState(org.status.operations, lastOrg.start.labels.cleanOperations)
    /\ CleaningPass =>
          IF LeftInState(lastOrg.start.status.operations,
                         lastOrg.start.labels.cleanOperations)
          THEN /\ org.status.operations =
                      CleanOperations(lastOrg.start.status.operations,
                                      lastOrg.start.labels.cleanOperations)
               /\ org.labels = lastOrg.start.labels
          ELSE org.labels.cleanOperations = ""

\* a pass in dry run has just purged the operations the label names
C25_Witness ==
    /\ CleaningPass
    /\ LeftInState(lastOrg.start.status.operations,
                   lastOrg.start.labels.cleanOperations)
    /\ ~LeftInState(org.status.operations, lastOrg.start.labels.cleanOperations)

\* a pass in dry run has just removed the label
LabelRemovedInDryRun == CleanLabelRemovedByPass /\ org.status.orgStatus = "dry-run"

\* ---- reconcilers that do not find the Forge client
\* the Forge reconciler registers the client, or the process restarts with
\* an empty registry
ClientRegistryBecomes ==
    /\ \E v \in BOOLEAN :
          /\ v # env.clientRegistered
          /\ env' = [env EXCEPT !.clientRegistered = v]
          /\ orgEnv' = [orgEnv EXCEPT !.clientRegistered = v]
    /\ last' = NoPass
    /\ lastOrg' = NoOrgPass
    /\ UNCHANGED <<team, forge, desired, now, org, orgForge>>

NextRegistry ==
    FaultlessReconcile \/ FaultlessOrgPass \/ SetDesiredOne \/ ClientRegistryBecomes

SpecRegistry == Init /\ [][NextRegistry]_vars

\* the pass of the GithubTeam did not find the client and changed nothing
TeamPassWithoutClient ==
    /\ last.ran
    /\ ~env.clientRegistered
    /\ last.start = team
    /\ last.forge = forge
    /\ last.writes = <<>>
    /\ last.calls = <<>>
    /\ ~last.err

OrgPassWithoutClient ==
    /\ lastOrg.ran
    /\ ~orgEnv.clientRegistered
    /\ lastOrg.start = org
    /\ lastOrg.forge = orgForge
    /\ lastOrg.writes = <<>>
    /\ lastOrg.calls = <<>>
    /\ ~lastOrg.err

\* C27: a Team or Organization reconcile that does not find the Forge
\* client in the registry changes nothing and requests a requeue after the
\* same constant delay of one second
C27_RequeueAfterOneSecond ==
    /\ (last.ran /\ ~env.clientRegistered) =>
          TeamPassWithoutClient /\ last.delay = "1s"
    /\ (lastOrg.ran /\ ~orgEnv.clientRegistered) =>
          OrgPassWithoutClient /\ lastOrg.delay = "1s"

\* ---- a team whose external provider is not running
\* the process-wide registry an owner reconciler publishes its client in
RegistryField(kind) ==
    IF kind = "github" THEN "clientRegistered" ELSE "providerRegistered"

\* GithubReconciler / LDAPGroupProviderReconciler /
\* GenericExternalMemberProviderReconciler .Reconcile, run for a queued
\* request: a missing or wrong secret, a failed client creation or a failed
\* connection test set the state failed and return without requeue; else
\* the client is registered and the state set running. The status update
\* is an event on the resource itself when it changes the stored status.
ResourceReconcile(kind) ==
    LET r == env.resources[kind]
        ok == r.specGood /\ r.secretGood
        state == IF ok THEN "running" ELSE "failed"
        changed == r.state # state \/ r.timestamp # now
    IN  /\ r.queued
        /\ env' = [env EXCEPT
               !.resources[kind] = [r EXCEPT !.state = state, !.timestamp = now,
                                             !.queued = changed],
               ![RegistryField(kind)] = IF ok THEN TRUE ELSE @]
        /\ last' = NoPass
        /\ lastOrg' = NoOrgPass
        /\ UNCHANGED <<team, forge, desired, now, orgVars>>

\* an operator edits the resource's spec, which becomes unusable or usable
\* again; For(&X{}) enqueues the resource
ResourceSpecBecomes(kind) ==
    /\ env' = [env EXCEPT !.resources[kind].specGood = ~@,
                          !.resources[kind].queued = TRUE]
    /\ last' = NoPass
    /\ lastOrg' = NoOrgPass
    /\ UNCHANGED <<team, forge, desired, now, orgVars>>

\* the credential secret the resource names becomes wrong or is corrected;
\* no controller watches secrets
SecretBecomes(kind) ==
    /\ env' = [env EXCEPT !.resources[kind].secretGood = ~@]
    /\ last' = NoPass
    /\ lastOrg' = NoOrgPass
    /\ UNCHANGED <<team, forge, desired, now, orgVars>>

ProviderReconcile == ResourceReconcile("provider")

ProviderSpecBecomes == ResourceSpecBecomes("provider")

\* a resource just created: not built yet, its request queued
CreatedResource ==
    [state |-> "", timestamp |-> 0, specGood |-> TRUE,
     secretGood |-> TRUE, queued |-> TRUE]

\* a new GithubTeam that names a directory or HTTP provider not yet built
InitProvider ==
    /\ team \in {[labels |-> NoLabels, source |-> src, status |-> EmptyStatus] :
                    src \in {"ldap", "http"}}
    /\ forge = [teamExists |-> FALSE, members |-> {}]
    /\ env = [HealthyEnv EXCEPT !.providerRegistered = FALSE,
                                !.resources.provider = CreatedResource]
    /\ desired = {}
    /\ now = 1
    /\ last = NoPass
    /\ org = NewOrg
    /\ orgForge = NewOrganization
    /\ orgEnv = HealthyOrgEnv
    /\ lastOrg = NoOrgPass

NextProvider ==
    FaultlessReconcile \/ SetDesiredOne \/ ProviderReconcile \/ ProviderSpecBecomes

SpecProvider == InitProvider /\ [][NextProvider]_vars

\* the pass reached the resolution of the desired members: the forge team
\* exists, no operation is pending, the status is not dry-run
ReachedResolution ==
    /\ last.ran
    /\ ~last.err
    /\ last.forge.teamExists
    /\ last.start.status.teamStatus \in {"", "complete", "failed"}

\* C28: if the external provider referenced by a GithubTeam is not in
\* state running (never built, or its latest reconcile failed), the Team
\* reconcile appends no operation and requests a requeue after 1 second
C28_ProviderNotRunningRequeues ==
    (ReachedResolution /\ env.resources.provider.state # "running") =>
        /\ team.status.operations = last.start.status.operations
        /\ last.delay = "1s"

\* the same for a provider that was never built
NeverBuiltRequeues ==
    (ReachedResolution /\ ~env.providerRegistered) =>
        /\ team.status.operations = last.start.status.operations
        /\ last.delay = "1s"

\* ---- credential secrets of Forges and providers
GithubReconcile == ResourceReconcile("github")

GithubSpecBecomes == ResourceSpecBecomes("github")

GithubSecretBecomes == SecretBecomes("github")

ProviderSecretBecomes == SecretBecomes("provider")

\* a Github and a provider just created, neither built yet
InitSecret ==
    /\ team = [labels |-> NoLabels, source |-> "ldap", status |-> EmptyStatus]
    /\ forge = [teamExists |-> FALSE, members |-> {}]
    /\ env = [HealthyEnv EXCEPT
                 !.clientRegistered = FALSE, !.providerRegistered = FALSE,
                 !.resources = [kind \in {"github", "provider"} |-> CreatedResource]]
    /\ desired = {}
    /\ now = 1
    /\ last = NoPass
    /\ org = NewOrg
    /\ orgForge = NewOrganization
    /\ orgEnv = HealthyOrgEnv
    /\ lastOrg = NoOrgPass

NextSecret ==
    \/ GithubReconcile \/ GithubSpecBecomes \/ GithubSecretBecomes
    \/ ProviderReconcile \/ ProviderSpecBecomes \/ ProviderSecretBecomes
    \/ Tick

SpecSecret == InitSecret /\ [][NextSecret]_vars

\* C29: a change to the credential secret a Forge or a directory or HTTP
\* provider names makes that resource's reconciler run again: after the
\* change a request for the resource is queued
C29_SecretChangeRequeues ==
    [][\A kind \in {"github", "provider"} :
          env'.resources[kind].secretGood # env.resources[kind].secretGood
              => env'.resources[kind].queued]_vars

\* a resource failed, its spec and secret are usable, and nothing will
\* reconcile it
FailedAndForgotten(kind) ==
    /\ env.resources[kind].state = "failed"
    /\ env.resources[kind].specGood
    /\ env.resources[kind].secretGood
    /\ ~env.resources[kind].queued

NoResourceForgotten == \A kind \in {"github", "provider"} : ~FailedAndForgotten(kind)

\* ---- what makes a pass of the GithubTeam run
\* LabelSelectorPredicate of For(&GithubTeam{}): an event on the GithubTeam
\* is enqueued when the object does not carry orphaned=true
PassesPredicate(t) == t.labels.orphaned # "true"

\* a worker takes the queued request and runs Reconcile; the request is
\* queued again by a requeue the pass asks for, by the error it returns, or
\* by the event of its own update of the GithubTeam
QueuedTeamPass ==
    LET c == Reconcile(team, forge,
                 [fault |-> "none", failFrom |-> 1, until |-> now, now |-> now,
                  env |-> env, desired |-> InOrder(desired, ProviderIDs)])
    IN  /\ env.teamQueued
        /\ Len(c.store.status.operations) <= MaxOps
        /\ team' = c.store
        /\ forge' = c.fg
        /\ last' = [ran |-> TRUE, start |-> team, forge |-> forge,
                    calls |-> c.calls, writes |-> c.writes, delay |-> c.delay,
                    after |-> c.after, err |-> c.err]
        /\ env' = [env EXCEPT !.teamQueued =
                      \/ c.delay # "none"
                      \/ c.err
                      \/ (c.store # team /\ PassesPredicate(c.store))]
        /\ UNCHANGED <<desired, now, orgVars, lastOrg>>

\* an operator sets or removes the orphaned label or the required domain of
\* the GithubTeam: an event on the GithubTeam itself
GithubTeamEvent ==
    /\ \E o \in {"", "true"}, d \in {"", "d1"} :
          /\ team' = [team EXCEPT !.labels.orphaned = o,
                                  !.labels.requiredDomain = d,
                                  !.labels.nil = FALSE]
          /\ team' # team
    /\ env' = [env EXCEPT !.teamQueued = @ \/ PassesPredicate(team')]
    /\ last' = NoPass
    /\ lastOrg' = NoOrgPass
    /\ UNCHANGED <<forge, desired, now, orgVars>>

\* greenhouseTeamToGithubTeam: the members of the greenhouse Team change,
\* every GithubTeam that names it is enqueued
GreenhouseTeamEvent ==
    /\ \E d \in SUBSET {"I1"} : d # desired /\ desired' = d
    /\ env' = [env EXCEPT !.teamQueued = @ \/ team.source = "greenhouse"]
    /\ last' = NoPass
    /\ lastOrg' = NoOrgPass
    /\ UNCHANGED <<team, forge, now, orgVars>>

\* githubAccountLinkToGithubTeam: an account link of the same Github
\* changes, every GithubTeam with a required domain is enqueued
AccountLinkEvent ==
    /\ \E r \in [domain : {"d1"}, verified : BOOLEAN] :
          /\ r # env.emailChecks["I1"]
          /\ env' = [env EXCEPT !.emailChecks["I1"] = r,
                                !.teamQueued = @ \/ (~team.labels.nil /\ team.labels.requiredDomain # "")]
    /\ last' = NoPass
    /\ lastOrg' = NoOrgPass
    /\ UNCHANGED <<team, forge, desired, now, orgVars>>

\* a GithubTeam just created: its request is queued
InitTrigger ==
    /\ team = [labels |-> NoLabels, source |-> "greenhouse", status |-> EmptyStatus]
    /\ forge = [teamExists |-> FALSE, members |-> {}]
    /\ env = [HealthyEnv EXCEPT !.teamQueued = TRUE]
    /\ desired = {}
    /\ now = 1
    /\ last = NoPass
    /\ org = NewOrg
    /\ orgForge = NewOrganization
    /\ orgEnv = HealthyOrgEnv
    /\ lastOrg = NoOrgPass

NextTrigger ==
    QueuedTeamPass \/ GithubTeamEvent \/ GreenhouseTeamEvent \/ AccountLinkEvent

SpecTrigger == InitTrigger /\ [][NextTrigger]_vars

\* C30: no reconcile pass runs for a GithubTeam labelled orphaned=true,
\* whatever queued the request
C30_OrphanedNeverReconciled ==
    last.ran => last.start.labels.orphaned # "true"

\* an event on the GithubTeam itself never queues an orphaned GithubTeam
OwnEventsFiltered ==
    [][(team' # team /\ ~env.teamQueued /\ team'.labels.orphaned = "true")
          => ~env'.teamQueued \/ last'.ran]_vars

\* a change of the greenhouse Team never queues an orphaned GithubTeam
SiblingEventsFiltered ==
    [][(desired' # desired /\ ~env.teamQueued /\ team.labels.orphaned = "true")
          => ~env'.teamQueued]_vars

\* a change of an account link never queues an orphaned GithubTeam
AccountLinkEventsFiltered ==
    [][(env'.emailChecks # env.emailChecks /\ ~env.teamQueued
           /\ team.labels.orphaned = "true") => ~env'.teamQueued]_vars

\* a pass never requeues a GithubTeam it leaves orphaned
RequeuesFiltered ==
    [][(last'.ran /\ team'.labels.orphaned = "true") => ~env'.teamQueued]_vars

\* ---- concurrent access to the registries
\* the controllers whose workers read a registry: GithubClients is read by
\* the GithubTeam, GithubOrganization and GithubAccountLink reconcilers,
\* the provider registries by the GithubTeam reconciler
RegistryReaders(kind) ==
    IF kind = "github" THEN {"team", "organization", "accountlink"} ELSE {"team"}

\* the owner reconciler of a queued, usable resource reaches the statement
\* that publishes the client (GithubClients[github.Name] = cc): the map
\* assignment starts, no lock is taken
RegistryWriteBegins(kind) ==
    LET r == env.resources[kind]
    IN  /\ ~env.crashed
        /\ r.queued /\ r.specGood /\ r.secretGood
        /\ ~env.access[kind].writer
        /\ env' = [env EXCEPT !.access[kind].writer = TRUE]
        /\ last' = NoPass
        /\ lastOrg' = NoOrgPass
        /\ UNCHANGED <<team, forge, desired, now, orgVars>>

\* the map assignment ends and the owner reconciler sets the state running
RegistryWriteEnds(kind) ==
    LET r == env.resources[kind]
        changed == r.state # "running" \/ r.timestamp # now
    IN  /\ ~env.crashed
        /\ env.access[kind].writer
        /\ env' = [env EXCEPT
               !.access[kind].writer = FALSE,
               ![RegistryField(kind)] = TRUE,
               !.resources[kind] = [r EXCEPT !.state = "running", !.timestamp = now,
                                             !.queued = changed]]
        /\ last' = NoPass
        /\ lastOrg' = NoOrgPass
        /\ UNCHANGED <<team, forge, desired, now, orgVars>>

\* a worker of another controller starts the lookup of its client in the
\* registry (githubClient = GithubClients[githubName]), no lock is taken
RegistryReadBegins(kind) ==
    /\ ~env.crashed
    /\ \E reader \in RegistryReaders(kind) \ env.access[kind].readers :
          env' = [env EXCEPT !.access[kind].readers = @ \cup {reader}]
    /\ last' = NoPass
    /\ lastOrg' = NoOrgPass
    /\ UNCHANGED <<team, forge, desired, now, orgVars>>

\* the lookup returns
RegistryReadEnds(kind) ==
    /\ ~env.crashed
    /\ \E reader \in env.access[kind].readers :
          env' = [env EXCEPT !.access[kind].readers = @ \ {reader}]
    /\ last' = NoPass
    /\ lastOrg' = NoOrgPass
    /\ UNCHANGED <<team, forge, desired, now, orgVars>>

\* a read and a write of one Go map overlap: a data race, one of whose
\* outcomes is the runtime's fatal error "concurrent map read and map
\* write", which ends the process; the others are the old or the new entry
RuntimeThrows(kind) ==
    /\ ~env.crashed
    /\ env.access[kind].writer
    /\ env.access[kind].readers # {}
    /\ env' = [env EXCEPT !.crashed = TRUE]
    /\ last' = NoPass
    /\ lastOrg' = NoOrgPass
    /\ UNCHANGED <<team, forge, desired, now, orgVars>>

\* an operator edits the spec of a Github or provider, which stays usable
RegistryOwnerEdited(kind) ==
    /\ ~env.crashed
    /\ ~env.resources[kind].queued
    /\ env' = [env EXCEPT !.resources[kind].queued = TRUE]
    /\ last' = NoPass
    /\ lastOrg' = NoOrgPass
    /\ UNCHANGED <<team, forge, desired, now, orgVars>>

NextConcurrent ==
    \E kind \in {"github", "provider"} :
        \/ RegistryWriteBegins(kind)
        \/ RegistryWriteEnds(kind)
        \/ RegistryReadBegins(kind)
        \/ RegistryReadEnds(kind)
        \/ RuntimeThrows(kind)
        \/ RegistryOwnerEdited(kind)

SpecConcurrent == InitSecret /\ [][NextConcurrent]_vars

\* C26: a write of a registry by its owner reconciler never overlaps a
\* read of the same registry by another reconciler's worker, and no reader
\* ends with anything but the previous or the new client
C26_RegistriesSynchronised ==
    /\ \A kind \in {"github", "provider"} :
          ~(env.access[kind].writer /\ env.access[kind].readers # {})
    /\ ~env.crashed

\* ---- a pass whose final status write fails
\* the pending-operations block when Status().Update of its single write
\* after the loop returns an error: the Forge calls of the loop were made,
\* the Store keeps the status read at the start, the error is returned
ExecPhaseWriteFails(c, in) ==
    LET Finish(a) == IF a.changed THEN ReturnErr(a.c) ELSE a.c
    IN IF c.t.status.teamStatus # "pending" THEN c
       ELSE Finish(ExecLoop([c |-> c, ops |-> c.t.status.operations,
                             changed |-> FALSE, failed |-> FALSE], 1, in))

\* the whole pass with that failing write
ReconcileWriteFails(t, fg, in) ==
    LET Then(c, Phase(_, _)) == IF c.done THEN c ELSE Phase(c, in)
        c1 == RateLimitPhase(StartPass(t, fg), in)
        c2 == Then(c1, TTLPhase)
        c3 == Then(c2, ValidatePhase)
        c4 == Then(c3, StatusCheckPhase)
        c5 == Then(c4, DryRunPhase)
        c6 == Then(c5, ExecPhaseWriteFails)
    IN Return(c6, "none", 0)

\* a pass over pending operations that loses its status write
InterruptedReconcile ==
    LET c == ReconcileWriteFails(team, forge,
                 [fault |-> "none", failFrom |-> 1, until |-> now, now |-> now,
                  env |-> env, desired |-> InOrder(desired, ProviderIDs)])
    IN  /\ team.status.teamStatus = "pending"
        /\ team' = c.store
        /\ forge' = c.fg
        /\ last' = [ran |-> TRUE, start |-> team, forge |-> forge,
                    calls |-> c.calls, writes |-> c.writes, delay |-> c.delay,
                    after |-> c.after, err |-> c.err]
        /\ UNCHANGED <<env, desired, now, orgVars, lastOrg>>

NextInterrupt == FaultlessReconcile \/ SetDesiredAny \/ InterruptedReconcile

SpecInterrupt == Init /\ [][NextInterrupt]_vars

\* the i-th call of the pass changed the membership of a user on the Forge
MembershipChanged(i) ==
    /\ last.calls[i].name \in {"AddUser", "RemoveUser"}
    /\ last.calls[i].fault = "none"
    /\ LoginKnown(last.calls[i].arg)

\* the Store holds a complete operation for the user
RecordedComplete(user) ==
    \E j \in 1..Len(team.status.operations) :
        /\ team.status.operations[j].User = user
        /\ team.status.operations[j].State = "complete"

\* C31: every operation whose Forge call succeeded in a pass is recorded
\* as complete in the Store after the pass, also when the pass ends with a
\* failed status write
C31_PartialProgressRecorded ==
    last.ran =>
        \A i \in 1..Len(last.calls) :
            MembershipChanged(i) => RecordedComplete(last.calls[i].arg)

\* the same for the passes whose writes succeed
ProgressRecordedWithoutError ==
    (last.ran /\ ~last.err) =>
        \A i \in 1..Len(last.calls) :
            MembershipChanged(i) => RecordedComplete(last.calls[i].arg)

\* no pass adds a user whose login is already a member of the forge team
NoRepeatedAdd ==
    last.ran =>
        \A i \in 1..Len(last.calls) :
            (last.calls[i].name = "AddUser" /\ LoginKnown(last.calls[i].arg))
                => CanonicalLogin(last.calls[i].arg) \notin last.forge.members

\* ---- a team with one member converges
\* Team {org1, eng, greenhouseTeam: eng}, sibling members [I1], the account
\* link of I1 to the forge ID 42 of login u1, an empty forge team
InitConverge ==
    /\ team = [labels |-> NoLabels, source |-> "greenhouse", status |-> EmptyStatus]
    /\ forge = [teamExists |-> TRUE, members |-> {}]
    /\ env = HealthyEnv
    /\ desired = {"I1"}
    /\ now = 1
    /\ last = NoPass
    /\ org = NewOrg
    /\ orgForge = NewOrganization
    /\ orgEnv = HealthyOrgEnv
    /\ lastOrg = NoOrgPass

\* the GithubTeam controller runs while time passes and the organization's
\* controller works on its own resource
NextConverge == FaultlessReconcile \/ Tick \/ FaultlessOrgPass \/ OwnersChange

SpecConverge == InitConverge /\ [][NextConverge]_vars

\* the number of consecutive passes within which the scenario settles
MaxPasses == 3

\* the expected end of the scenario
SingleMemberSyncedIn(t, fg) ==
    /\ fg.members = {"u1"}
    /\ t.status.members = <<Member("I1", "u1")>>
    /\ t.status.teamStatus = "complete"
    /\ Len(t.status.operations) = 1
    /\ t.status.operations[1].Operation = "add"
    /\ t.status.operations[1].User = "u1"
    /\ t.status.operations[1].State = "complete"

SingleMemberSynced == SingleMemberSyncedIn(team, forge)

\* the Store and the Forge after n consecutive passes without Forge errors
RECURSIVE AfterPasses(_, _, _)
AfterPasses(t, fg, n) ==
    IF n = 0 THEN [team |-> t, forge |-> fg]
    ELSE LET c == Reconcile(t, fg,
                     [fault |-> "none", failFrom |-> 1, until |-> now, now |-> now,
                      env |-> env, desired |-> InOrder(desired, ProviderIDs)])
         IN AfterPasses(c.store, c.fg, n - 1)

\* the pass of the GithubTeam that has just returned changed nothing
TeamPassChangedNothing ==
    /\ last.ran
    /\ ~last.err
    /\ last.start = team
    /\ last.forge = forge

\* C32: repeated reconciles of the single-member team reach a stable state
\* in which the forge team's members are [u1], status.members is [{I1, u1}],
\* teamStatus is complete and the queue holds one complete add operation:
\* from every state of the scenario MaxPasses consecutive passes end in
\* that state, one more pass changes nothing, and no pass changes nothing
\* before that state
C32_SingleMemberConverges ==
    LET end == AfterPasses(team, forge, MaxPasses)
    IN  /\ SingleMemberSyncedIn(end.team, end.forge)
        /\ AfterPasses(end.team, end.forge, 1) = end
        /\ TeamPassChangedNothing => SingleMemberSynced

C32_Witness == TeamPassChangedNothing /\ SingleMemberSynced

\* ---- a complete organization status and its queues
OrgSettled(status) ==
    status.orgStatus = "complete" =>
        /\ ~OrgPendingOperationsFound(status.operations)
        /\ ~OrgFailedOperationsFound(status.operations)

\* C33: in every persisted GithubOrganization status, orgStatus = complete
\* implies that none of the three queues holds an operation in state
\* pending or failed
C33_OrgCompleteMeansSettled ==
    /\ OrgSettled(org.status)
    /\ \A i \in 1..Len(lastOrg.writes) : OrgSettled(lastOrg.writes[i])

\* a pass over pending operations some of which failed and a later one was
\* skipped by its gate wrote complete
FailedThenSkippedWroteComplete ==
    /\ lastOrg.ran
    /\ lastOrg.start.status.orgStatus = "pending"
    /\ org.status.orgStatus = "complete"
    /\ \E q \in {"owner", "team", "repo"} :
          \E i \in 1..Len(org.status.operations[q]) :
              /\ i <= Len(lastOrg.start.status.operations[q])
              /\ lastOrg.start.status.operations[q][i].State = "pending"
              /\ org.status.operations[q][i].State = "failed"

\* ---- the diff of a pass that refreshed status.members
\* the pass fetched the members of the forge team and found them different
\* from the status.members it had read
MembersRefreshed ==
    /\ last.ran
    /\ \E i \in 1..Len(last.calls) :
          last.calls[i].name = "MembersExtended" /\ last.calls[i].fault = "none"
    /\ ~elementsMatch(last.start.status.members,
           extendGithubMembersWithGreenhouseIDs(InOrder(last.forge.members, ForgeLogins)))

\* the logins of the desired members, and of the forge team the pass found
DesiredLogins ==
    {ToLower(DesiredMemberList[i].GithubUsername) : i \in 1..Len(DesiredMemberList)}

FetchedLogins == {ToLower(login) : login \in last.forge.members}

\* C34: in a pass where the members fetched from the Forge differ from the
\* stored status.members, an add is appended only for a desired login that
\* is not a member of the forge team, and a remove only for a login that is
\* a member of the forge team and not desired
C34_DiffAgainstFetchedMembers ==
    MembersRefreshed =>
        \A j \in AppendedByPass :
            LET op == team.status.operations[j]
                login == ToLower(op.User)
            IN  /\ op.Operation = "add" =>
                      login \in DesiredLogins /\ login \notin FetchedLogins
                /\ op.Operation = "remove" =>
                      login \in FetchedLogins /\ login \notin DesiredLogins

\* the same for the passes that found status.members up to date
DiffOfUpToDateMembers ==
    (last.ran /\ ~MembersRefreshed) =>
        \A j \in AppendedByPass :
            LET op == team.status.operations[j]
                login == ToLower(op.User)
            IN  /\ op.Operation = "add" =>
                      login \in DesiredLogins /\ login \notin FetchedLogins
                /\ op.Operation = "remove" =>
                      login \in FetchedLogins /\ login \notin DesiredLogins

\* ---- a desired member absent from the forge team
\* somebody removes a member of the team on the Forge itself
ForgeMemberRemoved ==
    /\ \E login \in forge.members : forge' = [forge EXCEPT !.members = @ \ {login}]
    /\ last' = NoPass
    /\ lastOrg' = NoOrgPass
    /\ UNCHANGED <<team, env, desired, now, orgVars>>

NextAbsent == FaultlessReconcile \/ SetDesiredAny \/ ForgeMemberRemoved \/ Tick

SpecAbsent == Init /\ [][NextAbsent]_vars

\* a desired member whose login exists on the Forge is not a member of the
\* forge team
DesiredLoginAbsent ==
    \E login \in DesiredLogins :
        LoginKnown(login) /\ CanonicalLogin(login) \notin forge.members

\* C35: with adds enabled and no Forge errors, a desired member's login that
\* is absent from the forge team gets a pending add enqueued and executed:
\* the passes do not come to rest (a pass that changes nothing) while such
\* a login is absent
C35_AbsentDesiredGetsAdded == TeamPassChangedNothing => ~DesiredLoginAbsent

\* the same before any operation for the login has completed
FirstAddNotStuck ==
    (TeamPassChangedNothing /\ DesiredLoginAbsent) =>
        \E i \in 1..Len(team.status.operations) :
            /\ team.status.operations[i].Operation = "add"
            /\ team.status.operations[i].State = "complete"
            /\ ToLower(team.status.operations[i].User) \in DesiredLogins

\* ---- a Forge that keeps rejecting one add
\* a pass in which the Forge answers every AddUser with HTTP 500 and every
\* other call without error: the calls of a pass over pending operations
\* are the membership calls alone
RejectingAddReconcile ==
    IF team.status.teamStatus = "pending"
    THEN TeamPass({[fault |-> "http500", failFrom |-> 1, window |-> 0]})
    ELSE TeamPass(NoFault)

NextReject == RejectingAddReconcile \/ Tick \/ FaultlessOrgPass \/ OwnersChange

SpecReject == InitConverge /\ [][NextReject]_vars

\* the add operations for a login in the queue
AddsFor(login) ==
    {i \in 1..Len(team.status.operations) :
        /\ team.status.operations[i].Operation = "add"
        /\ EqualFold(team.status.operations[i].User, login)}

\* C36: with unchanged desired members and a Forge that keeps rejecting the
\* add of one login, the queue of the GithubTeam stays bounded: the add
\* operations for that login never fill the queue up to the size the model
\* lets it grow to
C36_QueueStaysBounded == Cardinality(AddsFor("u1")) < MaxOps

\* no pass appends an add for a login whose earlier add is in the queue as
\* failed
FailedAddNotRepeated ==
    last.ran =>
        \A j \in AppendedByPass :
            team.status.operations[j].Operation = "add" =>
                ~\E i \in 1..Len(last.start.status.operations) :
                    /\ last.start.status.operations[i].Operation = "add"
                    /\ last.start.status.operations[i].State = "failed"
                    /\ EqualFold(last.start.status.operations[i].User,
                                 team.status.operations[j].User)

\* ---- passes that come to rest
\* the organization's spec with one or both default lists empty
OrgSpecs ==
    {[OrgSpec EXCEPT !.defaultPrivateRepositoryTeams = private,
                     !.defaultPublicRepositoryTeams = public] :
        private \in {<<>>, OrgSpec.defaultPrivateRepositoryTeams},
        public \in {<<>>, OrgSpec.defaultPublicRepositoryTeams}}

\* new resources of every kind; spec, labels, secrets and Forge state do
\* not change afterwards
InitQuiet ==
    /\ team = NewTeam
    /\ forge = [teamExists |-> FALSE, members |-> {}]
    /\ env = [HealthyEnv EXCEPT
                 !.resources = [kind \in {"github", "provider"} |-> CreatedResource]]
    /\ desired = {"I1"}
    /\ now = 1
    /\ last = NoPass
    /\ org \in {[NewOrg EXCEPT !.spec = s] : s \in OrgSpecs}
    /\ orgForge = NewOrganization
    /\ orgEnv = HealthyOrgEnv
    /\ lastOrg = NoOrgPass

NextQuiet ==
    FaultlessReconcile \/ FaultlessOrgPass \/ GithubReconcile \/ ProviderReconcile
        \/ Tick

SpecQuiet == InitQuiet /\ [][NextQuiet]_vars

\* a status without the time of its last write
WithoutTimestamp(status) == [status EXCEPT !.timestamp = ZeroTime]

\* C37: with spec, labels, secrets and Forge state unchanged every
\* reconciler comes to rest: a pass that has nothing to change but the
\* timestamp of the status writes nothing to the Store, so that its write
\* does not trigger the next pass
C37_RestingPassWritesNothing ==
    /\ (last.ran /\ WithoutTimestamp(team.status) = WithoutTimestamp(last.start.status))
          => last.writes = <<>>
    /\ (lastOrg.ran /\ WithoutTimestamp(org.status) = WithoutTimestamp(lastOrg.start.status))
          => lastOrg.writes = <<>>

\* the same for the GithubTeam reconciler alone
TeamRestingPassWritesNothing ==
    (last.ran /\ WithoutTimestamp(team.status) = WithoutTimestamp(last.start.status))
        => last.writes = <<>>

\* the same for an organization with both default lists
FullSpecRestingPassWritesNothing ==
    (/\ lastOrg.ran
     /\ org.spec = OrgSpec
     /\ WithoutTimestamp(org.status) = WithoutTimestamp(lastOrg.start.status))
        => lastOrg.writes = <<>>

\* the reconciler of a running Github or provider whose spec and secret are
\* unchanged does not write its status again
RunningResourceNotRestamped ==
    [][\A kind \in {"github", "provider"} :
          (env.resources[kind].state = "running" /\ env'.resources[kind].state = "running")
              => env'.resources[kind].timestamp = env.resources[kind].timestamp]_vars

\* ---- a change of the members an external provider returns
\* the group of the directory or of the HTTP endpoint gets other members,
\* or the StaticMemberProvider is rebuilt with other groups: no controller
\* watches the provider kinds for the GithubTeam, nothing is enqueued
ProviderMembersBecome ==
    /\ \E d \in SUBSET {"I1", "u2"} : d # desired /\ desired' = d
    /\ last' = NoPass
    /\ lastOrg' = NoOrgPass
    /\ UNCHANGED <<team, forge, env, now, orgVars>>

\* a GithubTeam just created that names a running provider
InitProviderTeam ==
    /\ team \in {[labels |-> NoLabels, source |-> src, status |-> EmptyStatus] :
                    src \in {"ldap", "http", "static"}}
    /\ forge = [teamExists |-> FALSE, members |-> {}]
    /\ env = [HealthyEnv EXCEPT !.teamQueued = TRUE]
    /\ desired = {}
    /\ now = 1
    /\ last = NoPass
    /\ org = NewOrg
    /\ orgForge = NewOrganization
    /\ orgEnv = HealthyOrgEnv
    /\ lastOrg = NoOrgPass

NextProviderTeam == QueuedTeamPass \/ ProviderMembersBecome \/ Tick

SpecProviderTeam == InitProviderTeam /\ [][NextProviderTeam]_vars

\* a pass of the GithubTeam now would leave the Store and the Forge as
\* they are
NothingToReconcile ==
    AfterPasses(team, forge, 1) = [team |-> team, forge |-> forge]

\* C38: after a change of the member set of its external provider a
\* GithubTeam is reconciled against the new set without another event on
\* the team: whenever no request for the team is queued, a pass would have
\* nothing to do
C38_ProviderChangeReconciled == ~env.teamQueued => NothingToReconcile

\* the same team fed by a greenhouse Team, whose changes are watched
NextSiblingTeam == QueuedTeamPass \/ GreenhouseTeamEvent \/ Tick

SpecSiblingTeam == InitTrigger /\ [][NextSiblingTeam]_vars

\* ---- repository-team reconciliation under TeamRepository overrides
\* every gate of the GithubOrganization explicitly enabled
OrgGatesEnabled ==
    [OrgNoLabels EXCEPT !.nil = FALSE,
                        !.addOrganizationOwner = "true",
                        !.removeOrganizationOwner = "true",
                        !.addTeam = "true", !.removeTeam = "true",
                        !.addRepositoryTeam = "true",
                        !.removeRepositoryTeam = "true"]

\* a GithubTeamRepository of the organization for repository r1
TeamRepository(name, permission) ==
    [Team |-> name, Permission |-> permission, Repository |-> {"r1"}]

\* the override lists of the cluster: none, one for a team the defaults do
\* not name, one for the default team with another permission
TeamRepositoryLists ==
    {<<>>, <<TeamRepository("tB", "pull")>>, <<TeamRepository("tA", "admin")>>}

\* a new GithubOrganization with every gate enabled on a Forge whose
\* private repository r1 has team tA with some permission; the spec and the
\* overrides do not change afterwards
InitOverride ==
    \E permission \in {"pull", "push", "admin"}, exceptions \in TeamRepositoryLists :
        /\ team = NewTeam
        /\ forge = [teamExists |-> FALSE, members |-> {}]
        /\ env = HealthyEnv
        /\ desired = {}
        /\ now = 1
        /\ last = NoPass
        /\ org = [labels |-> OrgGatesEnabled, spec |-> OrgSpec,
                  status |-> OrgEmptyStatus]
        /\ orgForge = [NewOrganization EXCEPT
                          !.privateRepos =
                              <<[Name |-> "r1",
                                 Teams |-> <<[Team |-> "tA",
                                              Permission |-> permission]>>]>>]
        /\ orgEnv = [HealthyOrgEnv EXCEPT !.exceptions = exceptions]
        /\ lastOrg = NoOrgPass

NextOverride == FaultlessOrgPass \/ OwnersChange \/ Tick

SpecOverride == InitOverride /\ [][NextOverride]_vars

\* the pass that has just returned executed repository-team operations and
\* left none of the queue waiting
RepoOperationsExecuted ==
    /\ lastOrg.ran
    /\ \E i \in 1..Len(lastOrg.start.status.operations.repo) :
           lastOrg.start.status.operations.repo[i].State = "pending"
    /\ \A i \in 1..Len(org.status.operations.repo) :
           org.status.operations.repo[i].State = "complete"

\* what the next repository comparison appends to the queue
LaterRepoDiff ==
    repoChangeCalculator(org.spec.defaultPrivateRepositoryTeams,
                         orgForge.privateRepos, orgEnv.exceptions,
                         org.spec.skipList, org.status.operations.repo)
    \o
    repoChangeCalculator(org.spec.defaultPublicRepositoryTeams,
                         orgForge.publicRepos, orgEnv.exceptions,
                         org.spec.skipList, org.status.operations.repo)

\* C39: once the repository-team operations of the queue have been
\* executed in order, the next comparison of the repositories enqueues no
\* further operation, whatever the overrides
C39_RepoDiffConverges == RepoOperationsExecuted => LaterRepoDiff = <<>>

\* the same without an override for a team of the default list
DisjointOverridesConverge ==
    (/\ RepoOperationsExecuted
     /\ \A e \in 1..Len(orgEnv.exceptions) :
            \A k \in 1..Len(org.spec.defaultPrivateRepositoryTeams) :
                orgEnv.exceptions[e].Team
                    # org.spec.defaultPrivateRepositoryTeams[k].Team)
        => LaterRepoDiff = <<>>

\* the operations of the queue were executed under disjoint overrides
DisjointOverridesExecuted ==
    /\ RepoOperationsExecuted
    /\ orgEnv.exceptions = <<TeamRepository("tB", "pull")>>

\* ---- clients of resources whose reconcile failed
\* a Github and a provider just created, neither built yet, and a new
\* GithubTeam with one desired member
InitRotation ==
    /\ team = NewTeam
    /\ forge = [teamExists |-> FALSE, members |-> {}]
    /\ env = [HealthyEnv EXCEPT
                 !.clientRegistered = FALSE, !.providerRegistered = FALSE,
                 !.resources = [kind \in {"github", "provider"} |-> CreatedResource]]
    /\ desired = {"I1"}
    /\ now = 1
    /\ last = NoPass
    /\ org = NewOrg
    /\ orgForge = NewOrganization
    /\ orgEnv = HealthyOrgEnv
    /\ lastOrg = NoOrgPass

NextRotation ==
    \/ GithubReconcile \/ GithubSpecBecomes \/ GithubSecretBecomes
    \/ ProviderReconcile \/ ProviderSecretBecomes
    \/ FaultlessReconcile \/ Tick

SpecRotation == InitRotation /\ [][NextRotation]_vars

\* the most recent reconcile of the resource ended in state failed
LastReconcileFailed(kind) == env.resources[kind].state = "failed"

\* C40: while the most recent reconcile of a Github or provider resource
\* ended in state failed the registry holds no client of its name, and a
\* pass of a GithubTeam of that Github issues no Forge call
C40_ClientOnlyWhileRunning ==
    /\ \A kind \in {"github", "provider"} :
           LastReconcileFailed(kind) => ~env[RegistryField(kind)]
    /\ (last.ran /\ LastReconcileFailed("github")) => last.calls = <<>>

\* a resource that was never built has no client in the registry
NeverBuiltHasNoClient ==
    \A kind \in {"github", "provider"} :
        env.resources[kind].state = "" => ~env[RegistryField(kind)]

\* a team pass issued Forge calls while its Github was failed
CallsWithStaleClient ==
    last.ran /\ LastReconcileFailed("github") /\ last.calls # <<>>

====
